---- MODULE Spec2Model ----
(***************************************************************************)
(* Model of the BrickLink order price calculator (src/Price_Calculator.py):*)
(* the single-PDF flow (fixture parsing or manual entry, currency          *)
(* conversion, proportional allocation of the additional costs, CSV rows)  *)
(* and the overhead computation of the batch converter.                    *)
(*                                                                         *)
(* Python floats are binary floating-point numbers: every arithmetic       *)
(* operation returns the exact result rounded to the nearest representable *)
(* value, ties to even.  The model keeps exactly that semantics with a     *)
(* significand of MantissaBits bits (the interpreter has 53), so that      *)
(* rounding is visible to every property about computed amounts.  A float  *)
(* is a record [m, e] standing for m * 2^e, with m = 0 or                  *)
(* 2^(MantissaBits-1) <= |m| < 2^MantissaBits, and e in place of the       *)
(* biased exponent (no overflow or underflow occurs for the amounts drawn).*)
(***************************************************************************)
EXTENDS Integers, Sequences, FiniteSets, TLC

MantissaBits == 6

\* ------------------------------------------------------------------ floats

Abs(x) == IF x < 0 THEN -x ELSE x

Sgn(x) == IF x < 0 THEN -1 ELSE IF x = 0 THEN 0 ELSE 1

Pow2(n) == 2 ^ n

RECURSIVE BitLen(_)
BitLen(n) == IF n = 0 THEN 0 ELSE 1 + BitLen(n \div 2)

Zero == [m |-> 0, e |-> 0]

\* The exact value m * 2^e rounded to the nearest float, ties to even.
Norm(m, e) ==
  IF m = 0 THEN Zero
  ELSE LET a == Abs(m)
           k == BitLen(a) - MantissaBits
       IN IF k <= 0
          THEN [m |-> m * Pow2(-k), e |-> e + k]
          ELSE LET q  == a \div Pow2(k)
                   r  == a % Pow2(k)
                   h  == Pow2(k - 1)
                   q1 == IF r > h \/ (r = h /\ q % 2 = 1) THEN q + 1 ELSE q
               IN IF q1 = Pow2(MantissaBits)
                  THEN [m |-> Sgn(m) * Pow2(MantissaBits - 1), e |-> e + k + 1]
                  ELSE [m |-> Sgn(m) * q1, e |-> e + k]

\* The quotient n / d of two integers (d > 0) times 2^e, correctly rounded:
\* the quotient is taken to MantissaBits + 3 bits and a sticky bit.
RatRound(n, d, e) ==
  IF n = 0 THEN Zero
  ELSE LET a  == Abs(n)
           s0 == MantissaBits + 3 + BitLen(d) - BitLen(a)
           s  == IF s0 < 0 THEN 0 ELSE s0
           nn == a * Pow2(s)
           q  == nn \div d
           st == IF nn % d = 0 THEN 0 ELSE 1
       IN Norm(Sgn(n) * (2 * q + st), e - s - 1)

\* float(n) for an int n.
FInt(n) == Norm(n, 0)

\* The float a decimal literal n/d denotes (float("1.6") is Lit(16, 10)).
Lit(n, d) == RatRound(n, d, 0)

FNeg(a) == [m |-> -a.m, e |-> a.e]

FMul(a, b) == Norm(a.m * b.m, a.e + b.e)

FAdd(a, b) ==
  IF a.m = 0 THEN b
  ELSE IF b.m = 0 THEN a
  ELSE LET hi == IF a.e >= b.e THEN a ELSE b
           lo == IF a.e >= b.e THEN b ELSE a
           d  == hi.e - lo.e
       IN IF d > MantissaBits + 3
          THEN Norm(hi.m * 8 + Sgn(lo.m), hi.e - 3)
          ELSE Norm(hi.m * Pow2(d) + lo.m, lo.e)

FSub(a, b) == FAdd(a, FNeg(b))

\* a / b for b # 0 (Python raises ZeroDivisionError for b = 0).
FDiv(a, b) == RatRound(a.m * Sgn(b.m), Abs(b.m), a.e - b.e)

FLt(a, b) ==
  IF a.m <= 0 /\ b.m >= 0 THEN a.m < 0 \/ b.m > 0
  ELSE IF a.m >= 0 /\ b.m <= 0 THEN FALSE
  ELSE IF a.m > 0 THEN a.e < b.e \/ (a.e = b.e /\ a.m < b.m)
  ELSE a.e > b.e \/ (a.e = b.e /\ a.m < b.m)

\* abs(x)
FAbs(a) == [m |-> Abs(a.m), e |-> a.e]

FLe(a, b) == a = b \/ FLt(a, b)


\* ------------------------------------------------------------- input bounds

\* Longest item list typed in manual entry.
MaxItems == 2

\* Amounts typed at the prompts of manual_data_entry_with_currency.
SubtotalInputs == {Zero, FInt(3), FInt(1024)}

ShippingInputs == {Lit(11, 10)}

InsuranceInputs == {Zero, Lit(1, 2)}

Charge1Inputs == {Zero}

Charge2Inputs == {Zero, Lit(7, 10)}

CreditInputs == {Zero, FInt(5)}

\* Item names typed at the item prompt (an empty name ends the list).
NameInputs == {"Brick 2 x 4"}

QtyInputs == {0, 2}

PriceInputs == {FInt(1), FInt(3)}

\* Currency codes typed at detect_currency_from_user.
CurrencyInputs == {"AUD", "EUR"}

\* Numbers typed at the exchange-rate prompts; NotANumber makes float() raise
\* ValueError.
ValidRates == {FInt(1), Lit(16, 10)}

InvalidRates == {Zero, FNeg(FInt(1))}

NotANumber == [m |-> 0, e |-> 1]

\* No number read yet.
NoRate == [m |-> 0, e |-> -1]

RateInputs == ValidRates \cup InvalidRates \cup {NotANumber}

\* ---------------------------------------------------------------- fixtures

Item(name, q, p, t) == [name |-> name, qty |-> q, unit_price |-> p, total |-> t]

create_mock_usd_pdf_content ==
  [currency |-> "USD", subtotal |-> Lit(4178, 100), shipping |-> Lit(792, 100),
   insurance |-> Zero, additional_charges_1 |-> Lit(299, 100),
   additional_charges_2 |-> Zero, credit |-> Zero, coupon_credit |-> Lit(110, 100),
   grand_total |-> Lit(5159, 100),
   items |-> << Item("Bright Light Yellow Butterfly with Stud Holder",
                     8, Lit(541, 1000), Lit(4328, 1000)),
                Item("Light Bluish Gray Container Box 2x2x1",
                     5, Lit(60, 100), Lit(300, 100)),
                Item("Black Dish 8x8 Inverted Batman Logo",
                     5, Lit(2448, 1000), Lit(1224, 100)),
                Item("Lime Tile Modified 2x3 Pentagonal",
                     10, Lit(288, 1000), Lit(288, 100)),
                Item("Light Bluish Gray Tile Round 1x1 Gauge",
                     10, Lit(39, 1000), Lit(39, 100)),
                Item("Black Tile Round 2x4 Oval Dashboard",
                     5, Lit(767, 1000), Lit(3835, 1000)),
                Item("Trans-Clear Windscreen 6x6x3",
                     6, Lit(2517, 1000), Lit(15102, 1000)) >>]

create_mock_eur_pdf_content ==
  [currency |-> "EUR", subtotal |-> Lit(14556, 100), shipping |-> Lit(1480, 100),
   insurance |-> Zero, additional_charges_1 |-> Zero,
   additional_charges_2 |-> Zero, credit |-> Zero, coupon_credit |-> Zero,
   grand_total |-> Lit(16036, 100),
   items |-> << Item("Belle - Minifigure, Dress with White Creases",
                     1, Lit(1522756, 100000), Lit(152276, 10000)),
                Item("Bruno Madrigal",
                     1, Lit(709084, 100000), Lit(70908, 10000)),
                Item("Lilo - Long Dress",
                     1, Lit(782067, 100000), Lit(78206, 10000)) >>]

create_mock_eur_pdf_content_29079613 ==
  [currency |-> "EUR", subtotal |-> Lit(3507, 100), shipping |-> Lit(460, 100),
   insurance |-> Zero, additional_charges_1 |-> Zero,
   additional_charges_2 |-> Zero, credit |-> Zero, coupon_credit |-> Zero,
   grand_total |-> Lit(3967, 100),
   items |-> << Item("C-3PO - Molded Light Bluish Gray Lower Leg, Printed Arms",
                     3, Lit(1169, 100), Lit(3507, 100)) >>]

create_mock_aud_pdf_content ==
  [currency |-> "AUD", subtotal |-> Lit(11517, 100), shipping |-> Lit(1250, 100),
   insurance |-> Zero, additional_charges_1 |-> Zero,
   additional_charges_2 |-> Zero, credit |-> Zero, coupon_credit |-> Zero,
   grand_total |-> Lit(12767, 100),
   items |-> << Item("Red Barb/Claw/Horn/Tooth with Clip",
                     30, Lit(71, 1000), Lit(213, 100)),
                Item("Reddish Brown Bar 7x3 with 2 Open O Clips",
                     8, Lit(288, 1000), Lit(2304, 1000)),
                Item("Dark Tan Brick Round 4x4x2/3 Dome Top",
                     16, Lit(419, 1000), Lit(6704, 1000)),
                Item("Black Cylinder Half 2x4x5 with Cutout",
                     12, Lit(618, 1000), Lit(7416, 1000)),
                Item("Red Cylinder Half 2x4x5 with Cutout",
                     12, Lit(616, 1000), Lit(7392, 1000)),
                Item("White Dish 4x4 Inverted with Clock Pattern",
                     2, Lit(1799, 1000), Lit(3598, 1000)),
                Item("Black Dish 8x8 Inverted with Batman Logo",
                     11, Lit(2784, 1000), Lit(30624, 1000)),
                Item("Dark Blue Flag 4x1 Wave Right",
                     10, Lit(211, 1000), Lit(211, 100)),
                Item("Reddish Brown Minifigure Weapon Holder Ring",
                     20, Lit(593, 1000), Lit(1186, 100)),
                Item("Dark Orange Plate 2x3",
                     40, Lit(132, 1000), Lit(528, 100)),
                Item("Medium Nougat Plate 6x12",
                     4, Lit(39, 100), Lit(156, 100)),
                Item("Trans-Orange Plate Modified 2x2 with Groove",
                     50, Lit(107, 1000), Lit(535, 100)),
                Item("Dark Tan Plate Round 1x1 with Open Stud",
                     100, Lit(41, 1000), Lit(410, 100)),
                Item("Dark Azure Plate Round Corner 5x5 Macaroni",
                     16, Lit(76, 1000), Lit(1216, 1000)),
                Item("Dark Blue Plate Round Corner 5x5 Macaroni",
                     16, Lit(172, 1000), Lit(2752, 1000)),
                Item("White Slope 45 2x1 Double with Bottom Stud",
                     20, Lit(146, 1000), Lit(292, 100)),
                Item("Tan Tile 1x2 with Door Pattern",
                     20, Lit(23, 100), Lit(460, 100)),
                Item("Dark Blue Tile Modified 1x3 Inverted",
                     30, Lit(131, 1000), Lit(393, 100)),
                Item("Pearl Gold Tile Round 1x1 with Dragon Pattern",
                     20, Lit(466, 1000), Lit(932, 100)) >>]

\* The order numbers a selected file name can carry: the four fixtures, and
\* any other name.
PdfFiles == {"29055780", "29062495", "29079613", "29154233", "unknown"}

\* read_actual_pdf_content: the fixture of the order number, if it has one.
HasFixture(order_number) == order_number # "unknown"

read_actual_pdf_content(order_number) ==
  CASE order_number = "29055780" -> create_mock_eur_pdf_content
    [] order_number = "29062495" -> create_mock_usd_pdf_content
    [] order_number = "29079613" -> create_mock_eur_pdf_content_29079613
    [] OTHER -> create_mock_aud_pdf_content

\* ------------------------------------------------------------ order record

Sum5(subtotal, shipping, insurance, charges1, charges2) ==
  FAdd(FAdd(FAdd(FAdd(subtotal, shipping), insurance), charges1), charges2)

\* Mutant: the coupon credit is left out of the record's credit.
parse_actual_pdf_content_DropCoupon(pdf_content, order_number) ==
  [order_number |-> order_number,
   items_data |-> pdf_content.items,
   subtotal |-> pdf_content.subtotal,
   shipping |-> pdf_content.shipping,
   insurance |-> pdf_content.insurance,
   additional_charges_1 |-> pdf_content.additional_charges_1,
   additional_charges_2 |-> pdf_content.additional_charges_2,
   credit |-> pdf_content.credit,
   grand_total |->
     FSub(FSub(Sum5(pdf_content.subtotal, pdf_content.shipping,
                    pdf_content.insurance, pdf_content.additional_charges_1,
                    pdf_content.additional_charges_2),
               pdf_content.credit),
          pdf_content.coupon_credit),
   original_currency |-> pdf_content.currency,
   exchange_rate |-> FInt(1)]

parse_actual_pdf_content(pdf_content, order_number) ==
  [order_number |-> order_number,
   items_data |-> pdf_content.items,
   subtotal |-> pdf_content.subtotal,
   shipping |-> pdf_content.shipping,
   insurance |-> pdf_content.insurance,
   additional_charges_1 |-> pdf_content.additional_charges_1,
   additional_charges_2 |-> pdf_content.additional_charges_2,
   credit |-> FAdd(pdf_content.credit, pdf_content.coupon_credit),
   grand_total |->
     FSub(FSub(Sum5(pdf_content.subtotal, pdf_content.shipping,
                    pdf_content.insurance, pdf_content.additional_charges_1,
                    pdf_content.additional_charges_2),
               pdf_content.credit),
          pdf_content.coupon_credit),
   original_currency |-> pdf_content.currency,
   exchange_rate |-> FInt(1)]

\* No record yet.
NoOrder ==
  [order_number |-> "", items_data |-> << >>, subtotal |-> Zero,
   shipping |-> Zero, insurance |-> Zero, additional_charges_1 |-> Zero,
   additional_charges_2 |-> Zero, credit |-> Zero, grand_total |-> Zero,
   original_currency |-> "", exchange_rate |-> FInt(1)]

\* No run of the engine yet.
NoResult ==
  [total_additional_costs |-> Zero, additional_cost_rate |-> Zero,
   total_additional_distributed |-> Zero, table |-> << >>, csv_data |-> << >>]

\* ------------------------------------------------------ currency conversion

\* Mutant: only the unit price of an item is converted.
ConvertItem_PriceOnly(item, rate) ==
  [item EXCEPT !.unit_price = FMul(@, rate)]

\* Mutant: only the line total of an item is converted.
ConvertItem_TotalOnly(item, rate) ==
  [item EXCEPT !.total = FMul(@, rate)]

\* One turn of the item loops of apply_currency_conversion and
\* convert_items_to_aud.
ConvertItem(item, rate) ==
  [item EXCEPT !.unit_price = FMul(@, rate), !.total = FMul(@, rate)]

ConvertItems(items, rate) == [i \in DOMAIN items |-> ConvertItem(items[i], rate)]

\* Mutant: the shipping amount is left in the original currency.
ConvertOrder_SkipShipping(o, rate) ==
  [o EXCEPT !.exchange_rate = rate,
            !.subtotal = FMul(@, rate),
            !.insurance = FMul(@, rate),
            !.additional_charges_1 = FMul(@, rate),
            !.additional_charges_2 = FMul(@, rate),
            !.credit = FMul(@, rate),
            !.grand_total = FMul(@, rate),
            !.items_data = ConvertItems(@, rate)]

\* Mutant: the conversion is applied to its own result.
ConvertOrder_Twice(o, rate) ==
  [o EXCEPT !.exchange_rate = rate,
            !.subtotal = FMul(FMul(@, rate), rate),
            !.shipping = FMul(FMul(@, rate), rate),
            !.insurance = FMul(FMul(@, rate), rate),
            !.additional_charges_1 = FMul(FMul(@, rate), rate),
            !.additional_charges_2 = FMul(FMul(@, rate), rate),
            !.credit = FMul(FMul(@, rate), rate),
            !.grand_total = FMul(FMul(@, rate), rate),
            !.items_data = ConvertItems(ConvertItems(@, rate), rate)]

\* Mutant: grand_total is left in the original currency.
ConvertOrder_KeepGrandTotal(o, rate) ==
  [o EXCEPT !.exchange_rate = rate,
            !.subtotal = FMul(@, rate),
            !.shipping = FMul(@, rate),
            !.insurance = FMul(@, rate),
            !.additional_charges_1 = FMul(@, rate),
            !.additional_charges_2 = FMul(@, rate),
            !.credit = FMul(@, rate),
            !.items_data = ConvertItems(@, rate)]

\* The body of apply_currency_conversion for a foreign currency, once the
\* prompt has accepted rate.
ConvertOrder(o, rate) ==
  [o EXCEPT !.exchange_rate = rate,
            !.subtotal = FMul(@, rate),
            !.shipping = FMul(@, rate),
            !.insurance = FMul(@, rate),
            !.additional_charges_1 = FMul(@, rate),
            !.additional_charges_2 = FMul(@, rate),
            !.credit = FMul(@, rate),
            !.grand_total = FMul(@, rate),
            !.items_data = ConvertItems(@, rate)]

\* Mutant: the items of the record are converted in place.
ItemDictsAfterConversion_InPlace(items, rate) == ConvertItems(items, rate)

\* The item dicts the record held before apply_currency_conversion, after
\* it: the loop converts a copy of each (item.copy()) and the record gets the
\* list of the copies.
ItemDictsAfterConversion(items, rate) == items

\* apply_currency_conversion with the rate its prompt accepted: an AUD record
\* is returned as it is.
apply_currency_conversion(o, rate) ==
  IF o.original_currency # "AUD" THEN ConvertOrder(o, rate) ELSE o

\* Mutant: every number passes the check.
RateAccepted_AnyNumber(rate) == rate # NotANumber

\* Mutant: a rate of 0 passes the check.
RateAccepted_NonNegative(rate) == rate # NotANumber /\ FLe(Zero, rate)

\* The check of the rate prompts: only a rate greater than 0 leaves the loop.
RateAccepted(rate) == rate # NotANumber /\ FLt(Zero, rate)

convert_items_to_aud(items_data, exchange_rate, currency) ==
  IF currency = "AUD" \/ exchange_rate = FInt(1)
  THEN items_data
  ELSE ConvertItems(items_data, exchange_rate)

\* ------------------------------------------------------- allocation engine

TotalAdditionalCosts(o) ==
  FSub(FAdd(FAdd(FAdd(o.shipping, o.insurance), o.additional_charges_1),
            o.additional_charges_2),
       o.credit)

AdditionalCostRate_NoZeroPolicy(o) ==
  IF FLt(Zero, o.subtotal)
  THEN FDiv(TotalAdditionalCosts(o), o.subtotal)
  ELSE TotalAdditionalCosts(o)

AdditionalCostRate(o) ==
  IF FLt(Zero, o.subtotal)
  THEN FDiv(TotalAdditionalCosts(o), o.subtotal)
  ELSE Zero

\* Mutant: the weight of an item is quantity * unit price, not its stored
\* total.
ItemAdditionalCost_ByQuantity(item, rate) ==
  FMul(FMul(FInt(item.qty), item.unit_price), rate)

ItemAdditionalCost(item, rate) == FMul(item.total, rate)

\* item_additional_cost / item["qty"], for qty # 0.
AdditionalCostPerUnit(item, rate) ==
  FDiv(ItemAdditionalCost(item, rate), FInt(item.qty))

\* Mutant: the share of the additional costs is taken off the unit price.
TrueUnitCost_Subtract(item, rate) ==
  FSub(item.unit_price, AdditionalCostPerUnit(item, rate))

TrueUnitCost(item, rate) ==
  FAdd(item.unit_price, AdditionalCostPerUnit(item, rate))

RECURSIVE SumQty(_)
SumQty(items) ==
  IF items = << >> THEN 0 ELSE items[1].qty + SumQty(Tail(items))


\* round(x, ndigits): x rounded half-even at ndigits decimals, as a float.
RoundDec(x, ndigits) ==
  IF x.e >= 0 THEN x
  ELSE IF -x.e > 30 THEN Zero
  ELSE LET n == Abs(x.m) * (10 ^ ndigits)
           d == Pow2(-x.e)
           q == n \div d
           r == n % d
           q1 == IF 2 * r > d \/ (2 * r = d /\ q % 2 = 1) THEN q + 1 ELSE q
       IN Lit(Sgn(x.m) * q1, 10 ^ ndigits)

\* ------------------------------------------------- other record constructors

\* grand_total as the constructors compute it from the six amounts.
GrandTotal(subtotal, shipping, insurance, charges1, charges2, credit) ==
  FSub(Sum5(subtotal, shipping, insurance, charges1, charges2), credit)

\* create_sample_bricklink_data: a literal record for order 29055780 and
\* another, in the currency given, for any other order.
create_sample_bricklink_data(order_number, currency) ==
  IF order_number = "29055780"
  THEN
    [order_number |-> order_number,
     items_data |->
        << Item("Belle - Minifigure, Dress with White Creases",
             1, Lit(1522756, 100000), Lit(152276, 10000)),
           Item("Bruno Madrigal",
             1, Lit(709084, 100000), Lit(70908, 10000)),
           Item("Lilo - Long Dress",
             1, Lit(782067, 100000), Lit(78206, 10000)),
           Item("Bright Light Orange Cat",
             4, Lit(506832, 100000), Lit(202733, 10000)),
           Item("Tan Brick Round 6x6",
             12, Lit(47899, 100000), Lit(57479, 10000)) >>,
     subtotal |-> Lit(14556, 100), shipping |-> Lit(1480, 100), insurance |-> Zero,
     additional_charges_1 |-> Zero, additional_charges_2 |-> Zero,
     credit |-> Zero,
     grand_total |-> Lit(16036, 100),
     original_currency |-> "EUR", exchange_rate |-> FInt(1)]
  ELSE
    [order_number |-> order_number,
     items_data |->
        << Item("Sample LEGO Brick 2x4",
             10, Lit(15, 100), Lit(150, 100)),
           Item("Sample Minifigure Head",
             2, Lit(25, 100), Lit(50, 100)),
           Item("Sample Plate 1x1",
             50, Lit(5, 100), Lit(250, 100)) >>,
     subtotal |-> Lit(2500, 100), shipping |-> Lit(500, 100), insurance |-> Zero,
     additional_charges_1 |-> Zero, additional_charges_2 |-> Zero,
     credit |-> Zero,
     grand_total |-> Lit(3000, 100),
     original_currency |-> currency, exchange_rate |-> FInt(1)]

parse_eur_invoice_data(order_number) ==
  [order_number |-> order_number,
   items_data |->
      << Item("Belle - Minifigure, Dress with White Creases",
           1, Lit(1522756, 100000), Lit(152276, 10000)),
         Item("Bruno Madrigal",
           1, Lit(709084, 100000), Lit(70908, 10000)),
         Item("Lilo - Long Dress",
           1, Lit(782067, 100000), Lit(78206, 10000)),
         Item("Bright Light Orange Cat, Friends Style, Large, Baby Cub",
           4, Lit(506832, 100000), Lit(202733, 10000)),
         Item("Tan Brick, Round 6 x 6 with 4 Side Pin Holes",
           12, Lit(47899, 100000), Lit(57479, 10000)) >>,
   subtotal |-> Lit(14556, 100), shipping |-> Lit(1480, 100), insurance |-> Zero,
   additional_charges_1 |-> Zero, additional_charges_2 |-> Zero,
   credit |-> Zero,
   grand_total |-> GrandTotal(Lit(14556, 100), Lit(1480, 100), Zero, Zero, Zero, Zero),
   original_currency |-> "EUR", exchange_rate |-> FInt(1)]

\* get_known_invoice_data returns no currency and no rate: the readers of
\* the record take AUD and 1.0.
get_known_invoice_data(order_number) ==
  [order_number |-> order_number,
   items_data |->
      << Item("Red Barb/Claw/Horn/Tooth with Clip",
           30, Lit(71, 1000), Lit(213, 100)),
         Item("Reddish Brown Bar 7x3 with 2 Open O Clips",
           8, Lit(288, 1000), Lit(2304, 1000)),
         Item("Dark Tan Brick Round 4x4x2/3 Dome Top",
           16, Lit(419, 1000), Lit(6704, 1000)),
         Item("Black Cylinder Half 2x4x5 with Cutout",
           12, Lit(618, 1000), Lit(7416, 1000)),
         Item("Red Cylinder Half 2x4x5 with Cutout",
           12, Lit(616, 1000), Lit(7392, 1000)),
         Item("White Dish 4x4 Inverted with Clock Pattern",
           2, Lit(1799, 1000), Lit(3598, 1000)),
         Item("Black Dish 8x8 Inverted with Batman Logo",
           11, Lit(2784, 1000), Lit(30624, 1000)),
         Item("Dark Blue Flag 4x1 Wave Right",
           10, Lit(211, 1000), Lit(211, 100)),
         Item("Reddish Brown Minifigure Weapon Holder Ring",
           20, Lit(593, 1000), Lit(1186, 100)),
         Item("Dark Orange Plate 2x3",
           40, Lit(132, 1000), Lit(528, 100)),
         Item("Medium Nougat Plate 6x12",
           4, Lit(39, 100), Lit(156, 100)),
         Item("Trans-Orange Plate Modified 2x2 with Groove",
           50, Lit(107, 1000), Lit(535, 100)),
         Item("Dark Tan Plate Round 1x1 with Open Stud",
           100, Lit(41, 1000), Lit(410, 100)),
         Item("Dark Azure Plate Round Corner 5x5 Macaroni",
           16, Lit(76, 1000), Lit(1216, 1000)),
         Item("Dark Blue Plate Round Corner 5x5 Macaroni",
           16, Lit(172, 1000), Lit(2752, 1000)),
         Item("White Slope 45 2x1 Double with Bottom Stud",
           20, Lit(146, 1000), Lit(292, 100)),
         Item("Tan Tile 1x2 with Door Pattern",
           20, Lit(23, 100), Lit(460, 100)),
         Item("Dark Blue Tile Modified 1x3 Inverted",
           30, Lit(131, 1000), Lit(393, 100)),
         Item("Pearl Gold Tile Round 1x1 with Dragon Pattern",
           20, Lit(466, 1000), Lit(932, 100)) >>,
   subtotal |-> Lit(11517, 100), shipping |-> Lit(1250, 100), insurance |-> Zero,
   additional_charges_1 |-> Zero, additional_charges_2 |-> Zero,
   credit |-> Zero,
   grand_total |-> GrandTotal(Lit(11517, 100), Lit(1250, 100), Zero, Zero, Zero, Zero),
   original_currency |-> "AUD", exchange_rate |-> FInt(1)]

\* parse_invoice_text, from the amounts and the items its patterns matched
\* (0 for an amount without a match): a record of order number, items,
\* subtotal, shipping and grand_total when the subtotal is greater than 0 and
\* there are items, otherwise None (no record).  The readers of the record take 0 for the
\* charges it does not have, AUD for the currency and 1.0 for the rate.
parse_invoice_text(subtotal, shipping, items_data, order_number) ==
  IF FLt(Zero, subtotal) /\ items_data # << >>
  THEN [NoOrder EXCEPT !.order_number = order_number,
                       !.items_data = items_data,
                       !.subtotal = subtotal,
                       !.shipping = shipping,
                       !.grand_total = FAdd(subtotal, shipping),
                       !.original_currency = "AUD"]
  ELSE NoOrder

\* --------------------------------------------------------- batch converter

\* The amounts extract_currency_and_amounts_advanced reads from a PDF text,
\* and the item lists extract_items_from_text_advanced returns (name holds
\* the item's description).
Amounts(order_total, shipping, insurance, additional_1, additional_2, credit) ==
  [order_total |-> order_total, shipping |-> shipping, insurance |-> insurance,
   additional_1 |-> additional_1, additional_2 |-> additional_2,
   credit |-> credit]

ExtractedItems ==
  {<< >>, <<Item("3002", 2, FInt(1), FInt(2))>>,
   <<Item("3001", 1, FInt(2), FInt(2)), Item("3003", 3, Lit(3, 10), Lit(9, 10))>>}

\* An item list whose two items have the same total printed (0.04) at
\* different quantities and unit prices: 1 x 0.04 and 3 x 0.014.
EqualTotals ==
  <<Item("3004", 1, Lit(4, 100), Lit(4, 100)),
    Item("3005", 3, Lit(14, 1000), Lit(4, 100))>>

calculate_overhead_percentage_advanced(amounts) ==
  IF amounts.order_total = Zero
  THEN Zero
  ELSE RoundDec(
         FMul(FDiv(FSub(FAdd(FAdd(FAdd(amounts.shipping, amounts.insurance),
                                  amounts.additional_1),
                             amounts.additional_2),
                        amounts.credit),
                   amounts.order_total),
              FInt(100)),
         2)

\* One row of processed_items in process_single_pdf_advanced.
ProcessedItem(item, overhead_percentage) ==
  LET original_price == item.unit_price
      overhead_amount == FMul(original_price, FDiv(overhead_percentage, FInt(100)))
      adjusted_price == FAdd(original_price, overhead_amount)
  IN [Quantity |-> item.qty,
      Original_Unit_Price |-> RoundDec(original_price, 4),
      Overhead_Percentage |-> overhead_percentage,
      Overhead_Amount |-> RoundDec(overhead_amount, 4),
      Adjusted_Unit_Price |-> RoundDec(adjusted_price, 4),
      Original_Total |-> RoundDec(item.total, 2),
      Adjusted_Total |-> RoundDec(FMul(adjusted_price, FInt(item.qty)), 2)]

\* A PDF file of the working directory as the batch converter sees it: whether
\* pdfplumber opens it and its text parses, the amounts and the items its text
\* yields.
PdfFile(readable, file_amounts, items) ==
  [readable |-> readable, amounts |-> file_amounts, items |-> items]

NoAmounts == Amounts(Zero, Zero, Zero, Zero, Zero, Zero)

UnreadablePdf == PdfFile(FALSE, NoAmounts, << >>)

\* process_single_pdf_advanced: the rows of one file; any exception raised
\* while the file is opened or parsed is caught and gives no rows.
process_single_pdf_advanced(pdf_file) ==
  IF ~pdf_file.readable
  THEN << >>
  ELSE [i \in DOMAIN pdf_file.items |->
          ProcessedItem(pdf_file.items[i],
                        calculate_overhead_percentage_advanced(pdf_file.amounts))]

\* Mutant: the master CSV is created whether or not there are rows.
MasterWritten_Always(all) == TRUE

\* create_master_csv_output is called, and opens the file, when all_items is
\* not empty.
MasterWritten(all) == all # << >>

\* all_items after the rows of one file were handled by the loop of
\* convert_all_pdfs_to_csv.
Extend_Replace(all, items) == items

Extend(all, items) == all \o items

\* A defect of the record handed to the engine: the field (of the record when
\* item is 0, of the item at that position otherwise) is missing, or holds a
\* text where a number is expected (a number where the name is expected).
Defect(field, kind, item) == [field |-> field, kind |-> kind, item |-> item]

NoDefect == Defect("", "none", 0)

\* The exception Python raises where the engine first touches the field.
ExceptionType(d) ==
  IF d.kind = "missing" THEN "KeyError"
  ELSE IF d.field = "grand_total" THEN "ValueError"
  ELSE "TypeError"

\* str() of that exception: a KeyError shows the key, quoted.
ExceptionMessage(d) ==
  IF d.kind = "missing" THEN "'" \o d.field \o "'"
  ELSE CASE d.field = "subtotal" ->
              "'>' not supported between instances of 'str' and 'int'"
         [] d.field = "shipping" -> "can only concatenate str (not \"float\") to str"
         [] d.field = "grand_total" ->
              "Unknown format code 'f' for object of type 'str'"
         [] d.field = "qty" -> "unsupported operand type(s) for +: 'int' and 'str'"
         [] d.field = "unit_price" ->
              "can only concatenate str (not \"float\") to str"
         [] d.field = "total" -> "can't multiply sequence by non-int of type 'float'"
         [] OTHER -> "'int' object is not subscriptable"

\* ---------------------------------------------------------- item extraction
\* extract_items_from_text_advanced reads the text line by line.  A line is
\* what the function tells apart: the marker 'Items in Order', an end marker
\* ('Batch Total:', 'Buyer Information', 'Estimated Weight'), a header line
\* it skips, a colour name, a price line ('New ... qty AU $unit AU $total
\* weight') or any other text.

Line(kind, str, qty, unit_price, total) ==
  [kind |-> kind, str |-> str, qty |-> qty, unit_price |-> unit_price,
   total |-> total]

ItemsInOrder == Line("start", "Items in Order", 0, Zero, Zero)

BatchTotal == Line("end", "Batch Total: AU $3.13", 0, Zero, Zero)

Header == Line("skip", "Item Description", 0, Zero, Zero)

ColourLine(color) == Line("colour", color, 0, Zero, Zero)

PriceLine(str, qty, unit_price, total) == Line("price", str, qty, unit_price, total)

DescriptionLine(str) == Line("text", str, 0, Zero, Zero)

\* current_item: started is the dict being non-empty, priced is 'qty' being
\* in it; line is history, the position of the colour line that started it.
CurrentItem(started, color, description, priced, qty, unit_price, total, line) ==
  [started |-> started, color |-> color, description |-> description,
   priced |-> priced, qty |-> qty, unit_price |-> unit_price, total |-> total,
   line |-> line]

NoItem == CurrentItem(FALSE, "", "", FALSE, 0, Zero, Zero, 0)

\* Mutant: an item is saved as soon as it was started.
Complete_Started(current_item) == current_item.started

\* current_item and 'qty' in current_item
Complete(current_item) == current_item.started /\ current_item.priced

Save(items, current_item) ==
  IF Complete(current_item) THEN Append(items, current_item) ELSE items

\* The loop over the lines from line i on, and the statement after it.
RECURSIVE Scan(_, _, _, _, _)
Scan(lines, i, in_items_section, current_item, items) ==
  IF i > Len(lines)
  THEN Save(items, current_item)
  ELSE
    LET line == lines[i]
    IN CASE line.kind = "start" ->
              Scan(lines, i + 1, TRUE, current_item, items)
         [] line.kind = "end" ->
              \* the item is saved and the loop left; the statement after the
              \* loop saves current_item again
              Save(Save(items, current_item), current_item)
         [] ~in_items_section \/ line.kind = "skip" ->
              Scan(lines, i + 1, in_items_section, current_item, items)
         [] line.kind = "colour" ->
              Scan(lines, i + 1, in_items_section,
                   CurrentItem(TRUE, line.str, "", FALSE, 0, Zero, Zero, i),
                   Save(items, current_item))
         [] current_item.started /\ ~current_item.priced /\ line.kind = "price" ->
              Scan(lines, i + 1, in_items_section,
                   [current_item EXCEPT !.priced = TRUE, !.qty = line.qty,
                                        !.unit_price = line.unit_price,
                                        !.total = line.total],
                   items)
         [] current_item.started /\ ~current_item.priced /\ line.kind = "text" ->
              Scan(lines, i + 1, in_items_section,
                   [current_item EXCEPT
                      !.description = IF @ = "" THEN line.str
                                      ELSE @ \o " " \o line.str],
                   items)
         [] OTHER ->
              Scan(lines, i + 1, in_items_section, current_item, items)

extract_items_from_text_advanced(text) == Scan(text, 1, FALSE, NoItem, << >>)

\* ------------------------------------------------------------------- state

VARIABLES
  pc,                           \* where the program stands
  order_number,                 \* the order number of the selected file
  order_data,                   \* the order record (under construction in manual entry)
  source,                       \* history: the record in its original currency
  item_dicts,                   \* the item dicts the constructor put in the record
  path,                         \* history: what built the record, a fixture or manual entry
  rate,                         \* the number last read by an exchange-rate prompt
  total_additional_costs,       \* locals of calculate_costs_from_data
  additional_cost_rate,
  total_additional_distributed,
  total_items,
  idx,                          \* the item the loop of calculate_costs_from_data is at
  table,                        \* the item lines printed so far
  difference,                   \* the "Difference" line printed after the table
  printed,                      \* the lines printed after the table by the last run
  run,                          \* how many times the engine ran on the record
  first_result,                 \* history: what the first run computed and wrote
  error,                        \* the exception that ended the program, or "none"
  error_message,                \* str() of that exception
  defect,                       \* the defect of the record handed to the engine
  csv_data,                     \* the item rows create_csv_output wrote
  csv_written,
  fieldnames,                   \* the header create_csv_output wrote
  summary,                      \* the summary rows create_csv_output wrote
  amounts,                      \* batch: the amounts of the file being processed
  processed_items,              \* batch: the rows of the file being processed
  pdf_files,                    \* batch: the files glob found, in its order
  attempted,                    \* history: the positions of the files processed so far
  all_items,                    \* batch: the rows accumulated over the files
  master_csv,                   \* batch: the rows create_master_csv_output wrote
  master_written,               \* batch: the master CSV file was created
  full_text,                    \* the lines of the text of a PDF
  extracted                     \* what extract_items_from_text_advanced returned

vars ==
  <<pc, order_number, order_data, source, item_dicts, path, rate,
    total_additional_costs,
    additional_cost_rate, total_additional_distributed, total_items, idx,
    table, difference, printed, run, first_result, error, error_message,
    defect, csv_data, csv_written,
    fieldnames, summary, amounts, processed_items, pdf_files, attempted,
    all_items, master_csv, master_written, full_text, extracted>>

textVars == <<full_text, extracted>>

calcVars ==
  <<total_additional_costs, additional_cost_rate, total_additional_distributed,
    total_items, idx, table, difference, printed, run, first_result>>

csvVars == <<csv_data, csv_written, fieldnames, summary>>

faultVars == <<error_message, defect>>

batchVars ==
  <<amounts, processed_items, pdf_files, attempted, all_items, master_csv,
    master_written>>

\* Every variable but pc and full_text, before anything has run.
Idle ==
  /\ order_number = ""
  /\ order_data = NoOrder
  /\ source = NoOrder
  /\ item_dicts = << >>
  /\ path = "none"
  /\ rate = NoRate
  /\ total_additional_costs = Zero
  /\ additional_cost_rate = Zero
  /\ total_additional_distributed = Zero
  /\ total_items = 0
  /\ idx = 0
  /\ table = << >>
  /\ difference = Zero
  /\ printed = << >>
  /\ run = 0
  /\ first_result = NoResult
  /\ error = "none"
  /\ error_message = ""
  /\ defect = NoDefect
  /\ csv_data = << >>
  /\ csv_written = FALSE
  /\ fieldnames = << >>
  /\ summary = << >>
  /\ amounts = NoAmounts
  /\ processed_items = << >>
  /\ pdf_files = << >>
  /\ attempted = << >>
  /\ all_items = << >>
  /\ master_csv = << >>
  /\ master_written = FALSE
  /\ extracted = << >>

Init ==
  /\ pc = "menu"
  /\ full_text = << >>
  /\ Idle

\* ---------------------------------------------------------- single-PDF flow

\* main, choice 2: select_pdf_file returns a file name.
SelectPdf(f) ==
  /\ pc = "menu"
  /\ pc' = "parse_bricklink_pdf_text"
  /\ order_number' = f
  /\ UNCHANGED <<order_data, source, path, rate, calcVars, error, csvVars, batchVars>>
  /\ UNCHANGED item_dicts
  /\ UNCHANGED faultVars
  /\ UNCHANGED textVars

\* parse_bricklink_pdf_text up to its first prompt: a fixture is parsed and
\* handed to apply_currency_conversion, which returns an AUD record as it is
\* and asks for the rate of any other; without a fixture, manual entry.
ParseBricklinkPdfText ==
  /\ pc = "parse_bricklink_pdf_text"
  /\ IF HasFixture(order_number)
     THEN LET parsed_data ==
                parse_actual_pdf_content(read_actual_pdf_content(order_number),
                                         order_number)
          IN /\ order_data' = parsed_data
             /\ source' = parsed_data
             /\ item_dicts' = parsed_data.items_data
             /\ path' = "fixture"
             /\ pc' = IF parsed_data.original_currency # "AUD"
                      THEN "rate_prompt" ELSE "calculate"
     ELSE /\ order_data' = [NoOrder EXCEPT !.order_number = order_number]
          /\ source' = [NoOrder EXCEPT !.order_number = order_number]
          /\ item_dicts' = << >>
          /\ path' = "manual"
          /\ pc' = "manual_currency"
  /\ UNCHANGED <<order_number, rate, calcVars, error, csvVars, batchVars>>
  /\ UNCHANGED faultVars
  /\ UNCHANGED textVars

\* apply_currency_conversion, one turn of its prompt loop: a rate greater
\* than 0 converts the record, anything else asks again.
RatePrompt(input) ==
  /\ pc = "rate_prompt"
  /\ rate' = input
  /\ IF RateAccepted(input)
     THEN /\ order_data' = ConvertOrder(order_data, input)
          /\ item_dicts' = ItemDictsAfterConversion(item_dicts, input)
          /\ pc' = "calculate"
     ELSE UNCHANGED <<order_data, item_dicts, pc>>
  /\ UNCHANGED <<order_number, source, path, calcVars, error, csvVars, batchVars>>
  /\ UNCHANGED faultVars
  /\ UNCHANGED textVars

\* input() raises at the rate prompt (end of input): parse_bricklink_pdf_text
\* catches the exception and falls back to manual entry.
RatePromptInterrupted ==
  /\ pc = "rate_prompt"
  /\ pc' = "manual_currency"
  /\ order_data' = [NoOrder EXCEPT !.order_number = order_number]
  /\ source' = [NoOrder EXCEPT !.order_number = order_number]
  /\ item_dicts' = << >>
  /\ path' = "manual"
  /\ rate' = NoRate
  /\ UNCHANGED <<order_number, calcVars, error, csvVars, batchVars>>
  /\ UNCHANGED faultVars
  /\ UNCHANGED textVars

\* detect_currency_from_user: a 3-letter code is returned, anything else
\* asks again.
ManualCurrency(currency) ==
  /\ pc = "manual_currency"
  /\ order_data' = [order_data EXCEPT !.original_currency = currency]
  /\ source' = [source EXCEPT !.original_currency = currency]
  /\ pc' = IF currency # "AUD" THEN "manual_rate" ELSE "manual_totals"
  /\ UNCHANGED <<order_number, path, rate, calcVars, error, csvVars, batchVars>>
  /\ UNCHANGED item_dicts
  /\ UNCHANGED faultVars
  /\ UNCHANGED textVars

\* get_exchange_rate, one turn of its prompt loop.
ManualRate(input) ==
  /\ pc = "manual_rate"
  /\ rate' = input
  /\ IF RateAccepted(input)
     THEN /\ order_data' = [order_data EXCEPT !.exchange_rate = input]
          /\ pc' = "manual_totals"
     ELSE UNCHANGED <<order_data, pc>>
  /\ UNCHANGED <<order_number, source, path, calcVars, error, csvVars, batchVars>>
  /\ UNCHANGED item_dicts
  /\ UNCHANGED faultVars
  /\ UNCHANGED textVars

\* The six amounts are read, converted when the currency is not AUD, and
\* grand_total is derived from the converted amounts.
ManualTotals(subtotal, shipping, insurance, charges1, charges2, credit) ==
  /\ pc = "manual_totals"
  /\ LET r == order_data.exchange_rate
         conv(x) == IF order_data.original_currency # "AUD" THEN FMul(x, r) ELSE x
     IN order_data' =
          [order_data EXCEPT
             !.subtotal = conv(subtotal),
             !.shipping = conv(shipping),
             !.insurance = conv(insurance),
             !.additional_charges_1 = conv(charges1),
             !.additional_charges_2 = conv(charges2),
             !.credit = conv(credit),
             !.grand_total =
               FSub(Sum5(conv(subtotal), conv(shipping), conv(insurance),
                         conv(charges1), conv(charges2)),
                    conv(credit))]
  /\ source' =
       [source EXCEPT
          !.subtotal = subtotal, !.shipping = shipping,
          !.insurance = insurance, !.additional_charges_1 = charges1,
          !.additional_charges_2 = charges2, !.credit = credit,
          !.grand_total =
            FSub(Sum5(subtotal, shipping, insurance, charges1, charges2), credit)]
  /\ pc' = "manual_items"
  /\ UNCHANGED <<order_number, path, rate, calcVars, error, csvVars, batchVars>>
  /\ UNCHANGED item_dicts
  /\ UNCHANGED faultVars
  /\ UNCHANGED textVars

\* One item is typed: its total is qty * unit_price.
ManualItem(name, qty, unit_price) ==
  /\ pc = "manual_items"
  /\ Len(source.items_data) < MaxItems
  /\ source' =
       [source EXCEPT
          !.items_data = Append(@, Item(name, qty, unit_price,
                                  FMul(FInt(qty), unit_price)))]
  /\ UNCHANGED <<pc, order_number, order_data, path, rate, calcVars, error,
                 csvVars, batchVars>>
  /\ UNCHANGED item_dicts
  /\ UNCHANGED faultVars
  /\ UNCHANGED textVars

\* An empty name ends the item list: the record is built, its items converted
\* by convert_items_to_aud.
ManualFinish ==
  /\ pc = "manual_items"
  /\ order_data' =
       [order_data EXCEPT
          !.items_data = convert_items_to_aud(source.items_data,
                                              order_data.exchange_rate,
                                              order_data.original_currency)]
  /\ pc' = "calculate"
  /\ UNCHANGED <<order_number, source, path, rate, calcVars, error, csvVars, batchVars>>
  /\ UNCHANGED item_dicts
  /\ UNCHANGED faultVars
  /\ UNCHANGED textVars

\* The width of the name in an item line.
NameWidth == 44

\* name[:n]
Truncate(name, n) == IF Len(name) > n THEN SubSeq(name, 1, n) ELSE name

\* The line calculate_costs_from_data prints for one item.
TableLine(item, cost_rate) ==
  [name |-> Truncate(item.name, NameWidth),
   qty |-> item.qty,
   unit_price |-> item.unit_price,
   item_additional_cost |-> ItemAdditionalCost(item, cost_rate),
   additional_cost_per_unit |-> AdditionalCostPerUnit(item, cost_rate),
   true_unit_cost |-> TrueUnitCost(item, cost_rate)]

\* Mutant: an item of quantity 0 is skipped instead of raising.
RECURSIVE ItemLoop_SkipZero(_, _, _, _, _)
ItemLoop_SkipZero(items, cost_rate, i, distributed, lines) ==
  IF i > Len(items)
  THEN [distributed |-> distributed, table |-> lines, idx |-> i, error |-> "none"]
  ELSE IF items[i].qty = 0
  THEN ItemLoop_SkipZero(items, cost_rate, i + 1, distributed, lines)
  ELSE ItemLoop_SkipZero(items, cost_rate, i + 1,
                FAdd(distributed, ItemAdditionalCost(items[i], cost_rate)),
                Append(lines, TableLine(items[i], cost_rate)))

\* Mutant: the per-item average is taken, which fails on an empty list.
RECURSIVE ItemLoop_EmptyFails(_, _, _, _, _)
ItemLoop_EmptyFails(items, cost_rate, i, distributed, lines) ==
  IF Len(items) = 0
  THEN [distributed |-> distributed, table |-> lines, idx |-> i,
        error |-> "ZeroDivisionError"]
  ELSE IF i > Len(items)
  THEN [distributed |-> distributed, table |-> lines, idx |-> i, error |-> "none"]
  ELSE IF items[i].qty = 0
  THEN [distributed |-> distributed, table |-> lines, idx |-> i,
        error |-> "ZeroDivisionError"]
  ELSE ItemLoop_EmptyFails(items, cost_rate, i + 1,
                FAdd(distributed, ItemAdditionalCost(items[i], cost_rate)),
                Append(lines, TableLine(items[i], cost_rate)))

\* The item loop of calculate_costs_from_data from item i on: the division by
\* a quantity of 0 raises ZeroDivisionError and ends the loop there.
RECURSIVE ItemLoop(_, _, _, _, _)
ItemLoop(items, cost_rate, i, distributed, lines) ==
  IF i > Len(items)
  THEN [distributed |-> distributed, table |-> lines, idx |-> i, error |-> "none"]
  ELSE IF items[i].qty = 0
  THEN [distributed |-> distributed, table |-> lines, idx |-> i,
        error |-> "ZeroDivisionError"]
  ELSE ItemLoop(items, cost_rate, i + 1,
                FAdd(distributed, ItemAdditionalCost(items[i], cost_rate)),
                Append(lines, TableLine(items[i], cost_rate)))

\* Mutant: the running total is carried over from the previous run.
InitialDistributed_Carry(previous) == previous

\* total_additional_distributed = 0 before the item loop, whatever an earlier
\* run left.
InitialDistributed(previous) == Zero

\* The difference printed after the item table.
Difference(total, distributed) == FAbs(FSub(total, distributed))

\* The lines printed under the item table, whatever the difference is.
PrintedTotals(total, distributed) ==
  << [label |-> "Total additional costs distributed", amount |-> distributed],
     [label |-> "Original total additional costs", amount |-> total],
     [label |-> "Difference", amount |-> Difference(total, distributed)] >>

\* calculate_costs_from_data up to its call of create_csv_output; nothing
\* catches the ZeroDivisionError of the item loop, which ends the function
\* before the totals are printed.
CalculateCostsFromData ==
  /\ pc = "calculate"
  /\ defect = NoDefect
  /\ LET cost_rate == AdditionalCostRate(order_data)
         loop == ItemLoop(order_data.items_data, cost_rate, 1,
                          InitialDistributed(total_additional_distributed), << >>)
     IN /\ total_additional_costs' = TotalAdditionalCosts(order_data)
        /\ additional_cost_rate' = cost_rate
        /\ total_items' = SumQty(order_data.items_data)
        /\ total_additional_distributed' = loop.distributed
        /\ table' = loop.table
        /\ idx' = loop.idx
        /\ difference' =
             IF loop.error = "none"
             THEN Difference(TotalAdditionalCosts(order_data), loop.distributed)
             ELSE difference
        /\ printed' =
             IF loop.error = "none"
             THEN PrintedTotals(TotalAdditionalCosts(order_data), loop.distributed)
             ELSE << >>
        /\ run' = run + 1
        /\ first_result' = first_result
        /\ error' = loop.error
        /\ error_message' =
             IF loop.error = "none" THEN "" ELSE "float division by zero"
        /\ pc' = IF loop.error = "none" THEN "create_csv_output" ELSE "crashed"
  /\ UNCHANGED <<order_number, order_data, source, path, rate, csvVars, batchVars>>
  /\ UNCHANGED <<item_dicts, defect>>
  /\ UNCHANGED textVars

\* calculate_costs_from_data on a record with a defect: the statement that
\* first touches the field raises, nothing catches the exception, and the
\* function ends there.  A record field is read at lines 694-703 (a text
\* where a number is expected fails where it is first used: line 707, 710 or
\* 728); a quantity fails in the sum of line 735; total, unit_price and name
\* of item k fail in the loop, after the lines of the items before k.
CalculateCostsFromDefectiveData ==
  /\ pc = "calculate"
  /\ defect # NoDefect
  /\ LET cost_rate == AdditionalCostRate(order_data)
         k == defect.item
         before == IF k > 0 THEN SubSeq(order_data.items_data, 1, k - 1) ELSE << >>
         loop == ItemLoop(before, cost_rate, 1, Zero, << >>)
         in_loop == defect.field \in {"total", "unit_price", "name"}
     IN /\ IF k > 0
           THEN /\ total_additional_costs' = TotalAdditionalCosts(order_data)
                /\ additional_cost_rate' = cost_rate
                /\ total_additional_distributed' =
                     IF in_loop
                     THEN IF defect.field = "name"
                          THEN FAdd(loop.distributed,
                                    ItemAdditionalCost(order_data.items_data[k],
                                                       cost_rate))
                          ELSE loop.distributed
                     ELSE Zero
                /\ total_items' =
                     IF in_loop THEN SumQty(order_data.items_data) ELSE total_items
                /\ table' = IF in_loop THEN loop.table ELSE << >>
                /\ idx' = IF in_loop THEN k ELSE idx
           ELSE UNCHANGED <<total_additional_costs, additional_cost_rate,
                            total_additional_distributed, total_items, table, idx>>
  /\ error' = ExceptionType(defect)
  /\ error_message' = ExceptionMessage(defect)
  /\ printed' = << >>
  /\ run' = run + 1
  /\ pc' = "crashed"
  /\ UNCHANGED <<order_number, order_data, source, path, rate, difference,
                 first_result, csvVars, batchVars, item_dicts, defect>>
  /\ UNCHANGED textVars

\* ------------------------------------------------------------- CSV export
\* A cell of the CSV file: what the writer gets for one column of one row.
\* A number is written by its repr, an int by its digits; a percentage is
\* f"{x*100:.2f}%", kept as its count of hundredths; a negated amount is
\* f"-{x}"; the exchange-rate text is f"1 {currency} = {rate} AUD".
Cell(kind, str, int, num) == [kind |-> kind, str |-> str, int |-> int, num |-> num]

Str(str) == Cell("str", str, 0, Zero)

Blank == Str("")

Whole(n) == Cell("int", "", n, Zero)

Num(x) == Cell("float", "", 0, x)

Minus(x) == Cell("minus", "", 0, x)

RateText(currency, x) == Cell("rate", currency, 0, x)

\* f"{x:.2f}": the number of hundredths nearest to x, ties to even.
Hundredths(x) ==
  IF x.e >= 0 THEN x.m * Pow2(x.e) * 100
  ELSE IF -x.e > 30 THEN 0
  ELSE LET n == Abs(x.m) * 100
           d == Pow2(-x.e)
           q == n \div d
           r == n % d
       IN Sgn(x.m) * (IF 2 * r > d \/ (2 * r = d /\ q % 2 = 1) THEN q + 1 ELSE q)

Percent(cost_rate) == Cell("percent", "", Hundredths(FMul(cost_rate, FInt(100))), Zero)

\* The column of the unit price in the original currency.
OriginalColumn(original_currency) == "Original " \o original_currency \o " $"

\* Mutant: the five-column header whatever the currency.
Fieldnames_SingleOnly(original_currency) ==
  <<"Name", "Additional R", "QTY", "Original AUD $", "New AUD $">>

\* The header of the file: five columns for an AUD order, six for any other.
Fieldnames(original_currency) ==
  IF original_currency = "AUD"
  THEN <<"Name", "Additional R", "QTY", "Original AUD $", "New AUD $">>
  ELSE <<"Name", "Additional R", "QTY", OriginalColumn(original_currency),
         "Original AUD $", "New AUD $">>

\* A row (a dict) of the single-currency and of the dual-currency layout.
Row5(name, additional_r, qty, original_aud, new_aud) ==
  ("Name" :> name) @@ ("Additional R" :> additional_r) @@ ("QTY" :> qty)
    @@ ("Original AUD $" :> original_aud) @@ ("New AUD $" :> new_aud)

Row6(name, additional_r, qty, original_currency, original, original_aud, new_aud) ==
  Row5(name, additional_r, qty, original_aud, new_aud)
    @@ (OriginalColumn(original_currency) :> original)

\* Mutant: the export adds the share of the item once, not its share per unit.
CsvTrueUnitCost_WholeShare(item, cost_rate) ==
  FAdd(item.unit_price, FMul(item.total, cost_rate))

\* true_unit_cost as create_csv_output computes it for a row, from the rate
\* it was given.
CsvTrueUnitCost(item, cost_rate) ==
  LET item_additional_cost == FMul(item.total, cost_rate)
      additional_cost_per_unit == FDiv(item_additional_cost, FInt(item.qty))
  IN FAdd(item.unit_price, additional_cost_per_unit)

\* One item row of create_csv_output.
CsvRow(item, o, cost_rate) ==
  LET true_unit_cost == CsvTrueUnitCost(item, cost_rate)
      original_unit_price_in_orig_currency ==
        IF o.exchange_rate # FInt(1)
        THEN FDiv(item.unit_price, o.exchange_rate)
        ELSE item.unit_price
  IN IF o.original_currency = "AUD"
     THEN Row5(Str(item.name), Percent(cost_rate), Whole(item.qty),
               Num(RoundDec(item.unit_price, 4)),
               Num(RoundDec(true_unit_cost, 4)))
     ELSE Row6(Str(item.name), Percent(cost_rate), Whole(item.qty),
               o.original_currency,
               Num(RoundDec(original_unit_price_in_orig_currency, 4)),
               Num(RoundDec(item.unit_price, 4)),
               Num(RoundDec(true_unit_cost, 4)))

\* Mutant: the rows are collected last item first.
CsvData_Reversed(o, cost_rate) ==
  [i \in DOMAIN o.items_data |->
     CsvRow(o.items_data[Len(o.items_data) + 1 - i], o, cost_rate)]

\* csv_data: one row per item, in the order of items_data.
CsvData(o, cost_rate) ==
  [i \in DOMAIN o.items_data |-> CsvRow(o.items_data[i], o, cost_rate)]

\* Mutant: the row is written whatever its amount.
OptionalRow_Always(amount, row) == <<row>>

\* The rows written when their amount is greater than 0.
OptionalRow(amount, row) == IF FLt(Zero, amount) THEN <<row>> ELSE << >>

\* The summary rows of an AUD order, after the empty row.
SummaryRowsAud(o, cost_rate, items_total, additional_costs) ==
  << Row5(Str("SUMMARY"), Blank, Blank, Blank, Blank),
     Row5(Str("Subtotal"), Blank, Whole(items_total), Num(o.subtotal), Blank),
     Row5(Str("Shipping"), Blank, Blank, Num(o.shipping), Blank) >>
  \o OptionalRow(o.insurance,
       Row5(Str("Insurance"), Blank, Blank, Num(o.insurance), Blank))
  \o OptionalRow(o.additional_charges_1,
       Row5(Str("Additional Charges 1"), Blank, Blank,
            Num(o.additional_charges_1), Blank))
  \o OptionalRow(o.additional_charges_2,
       Row5(Str("Additional Charges 2"), Blank, Blank,
            Num(o.additional_charges_2), Blank))
  \o OptionalRow(o.credit,
       Row5(Str("Credit"), Blank, Blank, Minus(o.credit), Blank))
  \o << Row5(Str("Total Additional Costs"), Percent(cost_rate), Blank,
             Num(additional_costs), Blank),
        Row5(Str("Grand Total"), Blank, Blank, Blank, Num(o.grand_total)) >>

\* Mutant: the AUD amount is repeated in the original-currency column.
OriginalAmount_NotDivided(x, exchange_rate) == x

\* An AUD amount of the summary taken back to the original currency.
OriginalAmount(x, exchange_rate) == FDiv(x, exchange_rate)

\* The summary rows of an order in another currency: every amount also
\* divided by the exchange rate.
SummaryRowsForeign(o, cost_rate, items_total, additional_costs) ==
  LET c == o.original_currency
      orig(x) == OriginalAmount(x, o.exchange_rate)
  IN << Row6(Str("SUMMARY"), Blank, Blank, c, Blank, Blank, Blank),
        Row6(Str("Exchange Rate"), RateText(c, o.exchange_rate), Blank, c,
             Blank, Blank, Blank),
        Row6(Str("Subtotal"), Blank, Whole(items_total), c,
             Num(orig(o.subtotal)), Num(o.subtotal), Blank),
        Row6(Str("Shipping"), Blank, Blank, c,
             Num(orig(o.shipping)), Num(o.shipping), Blank) >>
     \o OptionalRow(o.insurance,
          Row6(Str("Insurance"), Blank, Blank, c,
               Num(orig(o.insurance)), Num(o.insurance), Blank))
     \o OptionalRow(o.additional_charges_1,
          Row6(Str("Additional Charges 1"), Blank, Blank, c,
               Num(orig(o.additional_charges_1)), Num(o.additional_charges_1),
               Blank))
     \o OptionalRow(o.additional_charges_2,
          Row6(Str("Additional Charges 2"), Blank, Blank, c,
               Num(orig(o.additional_charges_2)), Num(o.additional_charges_2),
               Blank))
     \o OptionalRow(o.credit,
          Row6(Str("Credit"), Blank, Blank, c,
               Minus(orig(o.credit)), Minus(o.credit), Blank))
     \o << Row6(Str("Total Additional Costs"), Percent(cost_rate), Blank, c,
                Num(orig(additional_costs)), Num(additional_costs), Blank),
           Row6(Str("Grand Total"), Blank, Blank, c,
                Num(orig(o.grand_total)), Blank, Num(o.grand_total)) >>

SummaryRows(o, cost_rate, items_total, additional_costs) ==
  IF o.original_currency = "AUD"
  THEN SummaryRowsAud(o, cost_rate, items_total, additional_costs)
  ELSE SummaryRowsForeign(o, cost_rate, items_total, additional_costs)

\* create_csv_output: every row is computed, then the file is written.
\* Mutant: the file is opened before the rows are computed.
CsvOpened_BeforeRows(o) == TRUE

\* create_csv_output opens the file after its loop has computed every row,
\* which divides by every quantity.
CsvOpened(o) == \A i \in DOMAIN o.items_data : o.items_data[i].qty # 0

CreateCsvOutput ==
  /\ pc = "create_csv_output"
  /\ IF \E i \in DOMAIN order_data.items_data : order_data.items_data[i].qty = 0
     THEN /\ error' = "ZeroDivisionError"
          /\ pc' = "crashed"
          /\ csv_written' = (csv_written \/ CsvOpened(order_data))
          /\ UNCHANGED <<csv_data, fieldnames, summary>>
     ELSE /\ csv_data' = CsvData(order_data, additional_cost_rate)
          /\ fieldnames' = Fieldnames(order_data.original_currency)
          /\ summary' = SummaryRows(order_data, additional_cost_rate,
                                    total_items, total_additional_costs)
          /\ csv_written' = TRUE
          /\ pc' = "done"
          /\ UNCHANGED error
  /\ UNCHANGED <<order_number, order_data, source, path, rate, calcVars, batchVars>>
  /\ UNCHANGED item_dicts
  /\ UNCHANGED faultVars
  /\ UNCHANGED textVars

\* A caller that holds the record runs calculate_costs_from_data on it once
\* more after the first run has returned.
MaxRuns == 2

CalculateAgain ==
  /\ pc = "done"
  /\ run < MaxRuns
  /\ first_result' =
       [total_additional_costs |-> total_additional_costs,
        additional_cost_rate |-> additional_cost_rate,
        total_additional_distributed |-> total_additional_distributed,
        table |-> table, csv_data |-> csv_data]
  /\ pc' = "calculate"
  /\ UNCHANGED <<order_number, order_data, source, path, rate,
                 total_additional_costs, additional_cost_rate,
                 total_additional_distributed, total_items, idx, table,
                 difference, printed, run, error, csvVars, batchVars>>
  /\ UNCHANGED item_dicts
  /\ UNCHANGED faultVars
  /\ UNCHANGED textVars

\* ---------------------------------------------------------------- batch flow

\* The files of the working directory a batch goes through.
MaxFiles == 2

\* convert_all_pdfs_to_csv up to its loop: it returns at once without
\* pdfplumber or when glob finds no PDF file.
ConvertAllPdfsToCsv(pdfplumber_available, files) ==
  /\ pc = "menu"
  /\ pdf_files' = IF pdfplumber_available THEN files ELSE << >>
  /\ pc' = IF pdfplumber_available /\ files # << >> THEN "batch" ELSE "batch_done"
  /\ UNCHANGED <<order_number, order_data, source, path, rate, calcVars, error,
                 csvVars, amounts, processed_items, attempted, all_items,
                 master_csv, master_written>>
  /\ UNCHANGED item_dicts
  /\ UNCHANGED faultVars
  /\ UNCHANGED textVars

\* One iteration of the loop of convert_all_pdfs_to_csv: the next file goes
\* through process_single_pdf_advanced and its rows, if any, extend all_items.
ProcessSinglePdfAdvanced ==
  /\ pc = "batch"
  /\ Len(attempted) < Len(pdf_files)
  /\ LET pdf_file == pdf_files[Len(attempted) + 1]
         items == process_single_pdf_advanced(pdf_file)
     IN /\ amounts' = IF pdf_file.readable THEN pdf_file.amounts ELSE amounts
        /\ processed_items' = items
        /\ all_items' = IF items # << >> THEN Extend(all_items, items) ELSE all_items
  /\ attempted' = Append(attempted, Len(attempted) + 1)
  /\ UNCHANGED <<pc, order_number, order_data, source, path, rate, calcVars,
                 error, csvVars, pdf_files, master_csv, master_written>>
  /\ UNCHANGED item_dicts
  /\ UNCHANGED faultVars
  /\ UNCHANGED textVars

\* After the loop create_master_csv_output writes the accumulated rows, if
\* there are any.
CreateMasterCsvOutput ==
  /\ pc = "batch"
  /\ Len(attempted) = Len(pdf_files)
  /\ master_csv' = all_items
  /\ master_written' = MasterWritten(all_items)
  /\ pc' = "batch_done"
  /\ UNCHANGED <<order_number, order_data, source, path, rate, calcVars, error,
                 csvVars, amounts, processed_items, pdf_files, attempted,
                 all_items>>
  /\ UNCHANGED item_dicts
  /\ UNCHANGED faultVars
  /\ UNCHANGED textVars

\* ------------------------------------------------------------ extraction flow
\* extract_items_from_text_advanced called on a text of at most MaxLines
\* lines.

MaxLines == 5

TextLines ==
  {ItemsInOrder, BatchTotal, Header, ColourLine("Red"), ColourLine("Blue"),
   PriceLine("New 30 AU $0.071 AU $2.13 5.4g", 30, Lit(71, 1000), Lit(213, 100)),
   PriceLine("New 2 AU $0.50 AU $1.00 1g", 2, Lit(1, 2), FInt(1)),
   DescriptionLine("Brick 2 x 4")}

Texts == UNION {[1..n -> TextLines] : n \in 0..MaxLines}

ExtractInit ==
  /\ pc = "extract"
  /\ full_text \in Texts
  /\ Idle

ExtractItemsFromTextAdvanced ==
  /\ pc = "extract"
  /\ extracted' = extract_items_from_text_advanced(full_text)
  /\ pc' = "extracted"
  /\ UNCHANGED <<order_number, order_data, source, item_dicts, path, rate,
                 calcVars, error, csvVars, batchVars, full_text>>
  /\ UNCHANGED faultVars

ExtractNext == ExtractItemsFromTextAdvanced

ExtractSpec == ExtractInit /\ [][ExtractNext]_vars

\* ------------------------------------------------------------ library calls
\* The constructors main does not reach, called by a program that imports the
\* module, and apply_currency_conversion called on the record they return.

CallConstructor(record) ==
  /\ pc = "menu"
  /\ record # NoOrder
  /\ order_number' = record.order_number
  /\ order_data' = record
  /\ source' = record
  /\ item_dicts' = record.items_data
  /\ path' = "library"
  /\ pc' = "constructed"
  /\ UNCHANGED <<rate, calcVars, error, csvVars, batchVars>>
  /\ UNCHANGED faultVars
  /\ UNCHANGED textVars

ApplyCurrencyConversion(input) ==
  /\ pc = "constructed"
  /\ order_data.original_currency = "AUD" \/ RateAccepted(input)
  /\ order_data' = apply_currency_conversion(order_data, input)
  /\ item_dicts' = IF order_data.original_currency # "AUD"
                   THEN ItemDictsAfterConversion(item_dicts, input)
                   ELSE item_dicts
  /\ rate' = IF order_data.original_currency = "AUD" THEN rate ELSE input
  /\ pc' = "converted"
  /\ UNCHANGED <<order_number, source, path, calcVars, error, csvVars, batchVars>>
  /\ UNCHANGED faultVars
  /\ UNCHANGED textVars

\* A program that imports the module hands calculate_costs_from_data the
\* record a constructor returned, converted or not.
HandOverRecord ==
  /\ pc \in {"constructed", "converted"}
  /\ pc' = "calculate"
  /\ UNCHANGED <<order_number, order_data, source, item_dicts, path, rate,
                 calcVars, error, csvVars, batchVars>>
  /\ UNCHANGED faultVars
  /\ UNCHANGED textVars

\* A program that imports the module calls create_csv_output itself on the
\* record it holds, with the rate and the totals of that record.
CallCreateCsvOutput ==
  /\ pc = "calculate"
  /\ defect = NoDefect
  /\ run = 0
  /\ additional_cost_rate' = AdditionalCostRate(order_data)
  /\ total_items' = SumQty(order_data.items_data)
  /\ total_additional_costs' = TotalAdditionalCosts(order_data)
  /\ pc' = "create_csv_output"
  /\ UNCHANGED <<order_number, order_data, source, item_dicts, path, rate,
                 total_additional_distributed, idx, table, difference, printed,
                 run, first_result, error, csvVars, batchVars>>
  /\ UNCHANGED faultVars
  /\ UNCHANGED textVars

\* A program that imports the module hands calculate_costs_from_data a record
\* with one defect.
HandOverDefectiveRecord(record, field, kind, item) ==
  /\ pc = "menu"
  /\ item <= Len(record.items_data)
  /\ order_number' = record.order_number
  /\ order_data' = record
  /\ source' = record
  /\ item_dicts' = record.items_data
  /\ path' = "library"
  /\ defect' = Defect(field, kind, item)
  /\ pc' = "calculate"
  /\ UNCHANGED <<rate, calcVars, error, error_message, csvVars, batchVars>>
  /\ UNCHANGED textVars

\* ------------------------------------------------------- exact arithmetic
\* Exact dyadic numbers [m, e] (m * 2^e, m any integer), used only to state
\* tolerances: no operation on them rounds.

RECURSIVE XRed(_)
XRed(a) ==
  IF a.m = 0 THEN Zero
  ELSE IF a.m % 2 = 0 THEN XRed([m |-> a.m \div 2, e |-> a.e + 1])
  ELSE a

XAddR(a, b) ==
  LET lo == IF a.e <= b.e THEN a.e ELSE b.e
  IN XRed([m |-> a.m * Pow2(a.e - lo) + b.m * Pow2(b.e - lo), e |-> lo])

XAdd(a, b) == XAddR(XRed(a), XRed(b))

XNeg(a) == [m |-> -a.m, e |-> a.e]

XSub(a, b) == XAdd(a, XNeg(b))

XAbs(a) == [m |-> Abs(a.m), e |-> a.e]

XMul(a, b) == XRed([m |-> XRed(a).m * XRed(b).m, e |-> XRed(a).e + XRed(b).e])

XInt(n) == XRed([m |-> n, e |-> 0])

XLe(a, b) == XSub(b, a).m >= 0

\* 2^-MantissaBits: the largest relative error of one rounding.
UnitRoundoff == [m |-> 1, e |-> -MantissaBits]

\* 1/100 rounded down to a dyadic number: the tolerance of a reconciliation.
Cent == [m |-> 5, e |-> -9]

\* ------------------------------------------------------------------ claims

SinglePath == pc \in {"create_csv_output", "done", "crashed"}

Calculated == pc \in {"create_csv_output", "done"}

Items == order_data.items_data

AllQtyPositive == \A i \in DOMAIN Items : Items[i].qty > 0

\* The rounding a reconciliation may show: one rounding per item and three
\* for the rate, each relative to the amounts added up (all of one sign).
RoundingSlack ==
  XMul(XMul(XInt(2 * (Len(table) + 3)), UnitRoundoff),
       XAdd(XAbs(total_additional_costs), XAbs(total_additional_distributed)))

\* C1: reconciliation law: for every order with subtotal > 0 that
\* calculate_costs_from_data completes, the allocated overheads of the items
\* add up to the total additional costs, within a cent and the rounding of
\* the sum.
C1_Reconciliation ==
  (Calculated /\ FLt(Zero, order_data.subtotal)) =>
    XLe(XAbs(XSub(total_additional_costs, total_additional_distributed)),
        XAdd(Cent, RoundingSlack))

\* C2 as stated: with subtotal == 0 and at least one item of positive
\* quantity the single-order engine completes with rate 0, no allocated
\* overhead and true unit cost equal to unit price.
C2_AsStated ==
  (SinglePath /\ order_data.subtotal = Zero
     /\ \E i \in DOMAIN Items : Items[i].qty > 0) =>
    /\ error = "none"
    /\ additional_cost_rate = Zero
    /\ Len(table) = Len(Items)
    /\ \A i \in DOMAIN table :
         /\ table[i].item_additional_cost = Zero
         /\ table[i].true_unit_cost = table[i].unit_price

\* C2 (amended): zero-subtotal policy: with subtotal == 0 and every item of
\* positive quantity (at least one item), the single-order engine completes
\* with rate 0, no allocated overhead and true unit cost equal to unit price;
\* on the batch path an order total of 0 gives overhead percentage 0, overhead
\* amount 0 and the adjusted price equal to the original price, without
\* failure.
C2_ZeroSubtotal ==
  /\ (SinglePath /\ order_data.subtotal = Zero /\ Items # << >> /\ AllQtyPositive) =>
       /\ error = "none"
       /\ additional_cost_rate = Zero
       /\ Len(table) = Len(Items)
       /\ \A i \in DOMAIN table :
            /\ table[i].item_additional_cost = Zero
            /\ table[i].true_unit_cost = table[i].unit_price
  /\ (pc = "batch_done" /\ amounts.order_total = Zero) =>
       \A i \in DOMAIN processed_items :
         /\ processed_items[i].Overhead_Percentage = Zero
         /\ processed_items[i].Overhead_Amount = Zero
         /\ processed_items[i].Adjusted_Unit_Price =
              processed_items[i].Original_Unit_Price

C2_Witness ==
  /\ pc = "done"
  /\ order_data.subtotal = Zero
  /\ Len(table) = 2
  /\ total_additional_costs # Zero
  /\ AllQtyPositive

\* C3: an item of quantity 0 makes calculate_costs_from_data fail with
\* ZeroDivisionError: no line is produced for that item or any after it, and
\* no line of an item has quantity 0.
C3_QuantityZeroFails ==
  (SinglePath /\ \E i \in DOMAIN Items : Items[i].qty = 0) =>
    /\ error = "ZeroDivisionError"
    /\ pc = "crashed"
    /\ Len(table) < Len(Items)
    /\ Items[Len(table) + 1].qty = 0
    /\ \A i \in DOMAIN table : table[i].qty # 0

C3_Witness ==
  /\ pc = "crashed"
  /\ Len(table) = 1
  /\ Len(Items) = 2
  /\ Items[2].qty = 0

\* C10: an order without items: the engine completes, prints no item line,
\* distributes 0 and writes a CSV without item rows, whatever the total
\* additional costs.
C10_EmptyItemList ==
  (pc \in {"create_csv_output", "done", "crashed"} /\ Items = << >>) =>
    /\ error = "none"
    /\ pc # "crashed"
    /\ table = << >>
    /\ total_additional_distributed = Zero
    /\ (pc = "done" => csv_written /\ csv_data = << >>)

C10_Witness ==
  /\ pc = "done"
  /\ Items = << >>
  /\ FLt(Zero, order_data.subtotal)
  /\ total_additional_costs # Zero
  /\ csv_written

Foreign == order_data.original_currency # "AUD"

\* The rate the engine computes on the order in its original currency.
SourceRate == AdditionalCostRate(source)

\* shipping + insurance + charges + credit of the original order, exactly.
XCharges ==
  XAdd(XAdd(XAdd(XAdd(XAbs(source.shipping), XAbs(source.insurance)),
                 XAbs(source.additional_charges_1)),
            XAbs(source.additional_charges_2)),
       XAbs(source.credit))

\* C4 as stated: after a conversion the engine's rate equals the rate of the
\* unconverted order.
C4_AsStated ==
  (SinglePath /\ Foreign /\ FLt(Zero, source.subtotal)) =>
    additional_cost_rate = SourceRate

\* C4 (amended): ratio invariance up to rounding: for subtotal > 0 and a rate
\* r > 0 the engine's rate after the conversion differs from the rate of the
\* unconverted order by at most 16 roundings of the charges relative to the
\* subtotal: |rate_r - rate| * subtotal <=
\* 16 * 2^-MantissaBits * (shipping + insurance + charges + credit).
C4_RatioInvariance ==
  (SinglePath /\ Foreign /\ FLt(Zero, source.subtotal)) =>
    XLe(XMul(XAbs(XSub(additional_cost_rate, SourceRate)), source.subtotal),
        XMul(XMul(XInt(16), UnitRoundoff), XCharges))

C4_Witness ==
  /\ pc = "done"
  /\ Foreign
  /\ order_data.exchange_rate = Lit(16, 10)
  /\ FLt(Zero, source.subtotal)
  /\ additional_cost_rate # Zero
  /\ additional_cost_rate # SourceRate

\* The true unit cost of item i computed on the order in its original currency.
SourceTrueUnitCost(i) == TrueUnitCost(source.items_data[i], SourceRate)

\* C5 as stated: each true unit cost after normalizing with r equals r times
\* the true unit cost computed in the source currency.
C5_AsStated ==
  (SinglePath /\ Foreign) =>
    \A i \in DOMAIN table :
      table[i].true_unit_cost = FMul(order_data.exchange_rate, SourceTrueUnitCost(i))

\* The bound of C5 for item i, multiplied through by quantity and subtotal:
\* 6 roundings of the unit price and 32 of the item's share of the charges.
C5_Bound(i) ==
  LET item == source.items_data[i]
      r == order_data.exchange_rate
      diff == XAbs(XSub(table[i].true_unit_cost, XMul(r, SourceTrueUnitCost(i))))
      q == XInt(item.qty)
      ru == XMul(r, UnitRoundoff)
  IN IF FLt(Zero, source.subtotal)
     THEN XLe(XMul(XMul(diff, q), source.subtotal),
              XMul(ru,
                   XAdd(XMul(XMul(XMul(XInt(6), XAbs(item.unit_price)), q),
                             source.subtotal),
                        XMul(XMul(XInt(32), XAbs(item.total)), XCharges))))
     ELSE XLe(diff, XMul(ru, XMul(XInt(6), XAbs(item.unit_price))))

\* C5 (amended): linearity of the true unit cost up to rounding: each true
\* unit cost after normalizing with r > 0 differs from r times the true unit
\* cost computed in the source currency by at most
\* r * 2^-MantissaBits * (6 * unit_price + 32 * total * (shipping + insurance
\* + charges + credit) / (qty * subtotal)), the last term dropped when
\* subtotal is 0.
C5_Linearity ==
  (SinglePath /\ Foreign) => \A i \in DOMAIN table : C5_Bound(i)

C5_Witness ==
  /\ pc = "done"
  /\ Foreign
  /\ order_data.exchange_rate = Lit(16, 10)
  /\ Len(table) = 2
  /\ additional_cost_rate # Zero
  /\ table[2].true_unit_cost #
       FMul(order_data.exchange_rate, SourceTrueUnitCost(2))

\* The record is built: it has reached, or is about to reach, the engine.
Built == pc \in {"calculate", "create_csv_output", "done", "crashed"}

Rate == order_data.exchange_rate

\* The six amounts and the items of the record are those of the original
\* order, each multiplied by r once; quantities and item order are kept.
ScaledOnce(r) ==
  /\ order_data.subtotal = FMul(source.subtotal, r)
  /\ order_data.shipping = FMul(source.shipping, r)
  /\ order_data.insurance = FMul(source.insurance, r)
  /\ order_data.additional_charges_1 = FMul(source.additional_charges_1, r)
  /\ order_data.additional_charges_2 = FMul(source.additional_charges_2, r)
  /\ order_data.credit = FMul(source.credit, r)
  /\ Len(Items) = Len(source.items_data)
  /\ \A i \in DOMAIN Items :
       /\ Items[i].qty = source.items_data[i].qty
       /\ Items[i].unit_price = FMul(source.items_data[i].unit_price, r)
       /\ Items[i].total = FMul(source.items_data[i].total, r)

\* grand_total as manual entry derives it from the amounts of the record.
DerivedGrandTotal ==
  FSub(Sum5(order_data.subtotal, order_data.shipping, order_data.insurance,
            order_data.additional_charges_1, order_data.additional_charges_2),
       order_data.credit)

\* C6 as stated: on both paths every monetary field, grand_total included, is
\* the field of the original order multiplied by the rate.
C6_AsStated ==
  (Built /\ Foreign) =>
    /\ ScaledOnce(Rate)
    /\ order_data.grand_total = FMul(source.grand_total, Rate)

\* C6 (amended): uniform normalization: for a foreign currency and r > 0,
\* apply_currency_conversion multiplies subtotal, shipping, insurance, both
\* additional charges, credit, grand_total and every item's unit_price and
\* total by r and keeps quantities and item order; manual entry multiplies the
\* same amounts and item prices by r, but derives grand_total from the
\* converted amounts instead of multiplying it.
C6_UniformNormalization ==
  (Built /\ Foreign) =>
    /\ ScaledOnce(Rate)
    /\ order_data.order_number = source.order_number
    /\ order_data.original_currency = source.original_currency
    /\ path = "fixture" => order_data.grand_total = FMul(source.grand_total, Rate)
    /\ path = "manual" => order_data.grand_total = DerivedGrandTotal

C6_Witness ==
  /\ pc = "calculate"
  /\ path = "manual"
  /\ Foreign
  /\ Rate = Lit(16, 10)
  /\ Len(Items) = 2
  /\ order_data.insurance # Zero
  /\ order_data.grand_total # FMul(source.grand_total, Rate)

AtRatePrompt == pc \in {"rate_prompt", "manual_rate"}

CreditExceedsCharges ==
  ~XLe(order_data.credit,
       XAdd(XAdd(XAdd(order_data.shipping, order_data.insurance),
                 order_data.additional_charges_1),
            order_data.additional_charges_2))

\* C9 as stated (every quantity taken positive): with subtotal > 0 and credit
\* greater than the charges the engine completes with a negative rate and
\* every item of positive total gets a true unit cost strictly lower than its
\* unit price.
C9_AsStated ==
  (SinglePath /\ FLt(Zero, order_data.subtotal) /\ CreditExceedsCharges
     /\ AllQtyPositive) =>
    /\ error = "none"
    /\ FLt(additional_cost_rate, Zero)
    /\ \A i \in DOMAIN table :
         FLt(Zero, Items[i].total) =>
           FLt(table[i].true_unit_cost, table[i].unit_price)

\* C9 (amended): negative overhead is distributed: with subtotal > 0, a
\* negative computed total of additional costs and every quantity positive,
\* the engine completes with a negative rate, and every item of positive total
\* gets a negative share and a true unit cost not above its unit price,
\* strictly below it whenever the share per unit is at least
\* 2^(1-MantissaBits) of the unit price (a smaller share is lost in the
\* rounding of the sum).
C9_NegativeOverhead ==
  (SinglePath /\ FLt(Zero, order_data.subtotal)
     /\ FLt(total_additional_costs, Zero) /\ AllQtyPositive) =>
    /\ error = "none"
    /\ FLt(additional_cost_rate, Zero)
    /\ \A i \in DOMAIN table :
         FLt(Zero, Items[i].total) =>
           /\ FLt(table[i].additional_cost_per_unit, Zero)
           /\ FLe(table[i].true_unit_cost, table[i].unit_price)
           /\ XLe(XAbs(table[i].unit_price),
                  XMul(XAbs(table[i].additional_cost_per_unit),
                       [m |-> 1, e |-> MantissaBits - 1])) =>
                FLt(table[i].true_unit_cost, table[i].unit_price)

C9_Witness ==
  /\ pc = "done"
  /\ FLt(total_additional_costs, Zero)
  /\ Len(table) = 2
  /\ \A i \in DOMAIN table :
       /\ FLt(Zero, Items[i].total)
       /\ FLt(table[i].true_unit_cost, table[i].unit_price)

SecondRun == run >= 2 /\ pc \in {"create_csv_output", "done"}

\* C11: determinism of the allocation: a second run of
\* calculate_costs_from_data on the same record computes the same total of
\* additional costs, rate, item lines (allocated overhead, overhead per unit,
\* true unit cost) and distributed total as the first, and writes the same
\* CSV rows.
C11_Determinism ==
  SecondRun =>
    /\ total_additional_costs = first_result.total_additional_costs
    /\ additional_cost_rate = first_result.additional_cost_rate
    /\ table = first_result.table
    /\ total_additional_distributed = first_result.total_additional_distributed
    /\ (pc = "done" => csv_data = first_result.csv_data)

C11_Witness ==
  /\ run = 2
  /\ pc = "done"
  /\ Len(table) = 2
  /\ total_additional_distributed # Zero
  /\ first_result.total_additional_distributed # Zero

\* C12: order preservation: the items of the record after the conversion, the
\* item lines of the engine and the item rows written to the CSV list the
\* input items in the input order, one per item, none dropped, duplicated or
\* moved; a run that fails on a quantity of 0 has produced the lines of the
\* items before it, in order.
C12_OrderPreservation ==
  /\ Built =>
       /\ Len(Items) = Len(source.items_data)
       /\ \A i \in DOMAIN Items :
            /\ Items[i].name = source.items_data[i].name
            /\ Items[i].qty = source.items_data[i].qty
  /\ SinglePath =>
       /\ Len(table) = IF error = "none" THEN Len(Items) ELSE idx - 1
       /\ Len(table) <= Len(Items)
       /\ \A i \in DOMAIN table :
            /\ table[i].name = Truncate(Items[i].name, NameWidth)
            /\ table[i].qty = Items[i].qty
            /\ table[i].unit_price = Items[i].unit_price
  /\ pc = "done" =>
       /\ Len(csv_data) = Len(Items)
       /\ \A i \in DOMAIN csv_data :
            /\ csv_data[i]["Name"] = Str(Items[i].name)
            /\ csv_data[i]["QTY"] = Whole(Items[i].qty)
            /\ csv_data[i]["Original AUD $"] = Num(RoundDec(Items[i].unit_price, 4))

C12_Witness ==
  /\ pc = "done"
  /\ order_number = "29062495"
  /\ path = "fixture"
  /\ Rate = Lit(16, 10)
  /\ Len(csv_data) = 7
  /\ csv_data[1]["Name"] # csv_data[7]["Name"]

\* ------------------------------------------------------ batch of PDF files

\* The rows of the first n files of the list, file after file.
RECURSIVE RowsOfFiles(_, _)
RowsOfFiles(files, n) ==
  IF n = 0
  THEN << >>
  ELSE RowsOfFiles(files, n - 1) \o process_single_pdf_advanced(files[n])

BatchRunning == pc = "batch" \/ (pc = "batch_done" /\ pdf_files # << >>)

\* C13: in convert_all_pdfs_to_csv every file of the list is attempted, in
\* list order; a file that cannot be opened or parsed contributes no rows and
\* does not end the batch; the rows of every file that was processed are all
\* in the accumulated output, in file order, and they are what
\* create_master_csv_output writes.
C13_BatchFailureIsolation ==
  BatchRunning =>
    /\ error = "none"
    /\ Len(attempted) <= Len(pdf_files)
    /\ \A k \in DOMAIN attempted : attempted[k] = k
    /\ all_items = RowsOfFiles(pdf_files, Len(attempted))
    /\ pc = "batch_done" =>
         /\ Len(attempted) = Len(pdf_files)
         /\ master_csv = all_items

C13_Witness ==
  /\ pc = "batch_done"
  /\ Len(pdf_files) = 2
  /\ pdf_files[1] = UnreadablePdf
  /\ pdf_files[2].readable
  /\ Len(master_csv) = 2

\* ------------------------------------------------------------ export schema

Columns == {fieldnames[k] : k \in DOMAIN fieldnames}

\* C14: create_csv_output writes the five-column header exactly when the
\* order's original currency is AUD and otherwise the six-column header with
\* the original-currency unit price column; every item row and every summary
\* row has only keys of the header written.
C14_SchemaSelection ==
  pc = "done" =>
    /\ (order_data.original_currency = "AUD") <=> (Len(fieldnames) = 5)
    /\ order_data.original_currency = "AUD" =>
         fieldnames = <<"Name", "Additional R", "QTY", "Original AUD $", "New AUD $">>
    /\ order_data.original_currency # "AUD" =>
         fieldnames =
           <<"Name", "Additional R", "QTY",
             "Original " \o order_data.original_currency \o " $",
             "Original AUD $", "New AUD $">>
    /\ \A i \in DOMAIN csv_data : DOMAIN csv_data[i] \subseteq Columns
    /\ \A i \in DOMAIN summary : DOMAIN summary[i] \subseteq Columns

C14_Witness ==
  /\ pc = "done"
  /\ order_data.original_currency = "EUR"
  /\ Len(fieldnames) = 6
  /\ csv_data # << >>
  /\ "Original EUR $" \in DOMAIN csv_data[1]
  /\ "Original EUR $" \in DOMAIN summary[Len(summary)]

\* ------------------------------------------------- source-currency recovery

\* The summary row with the given name.
SummaryRow(name) ==
  CHOOSE row \in {summary[k] : k \in DOMAIN summary} : row["Name"] = Str(name)

OriginalCell(row) == row[OriginalColumn(order_data.original_currency)]

\* A dual-currency export of an order normalized once with the stored rate.
DualExport == pc = "done" /\ Foreign /\ ScaledOnce(Rate)

\* C15 as stated: the original-currency unit price of every item row equals
\* the item's unit price before normalization, and the original-currency
\* subtotal and shipping of the summary equal the values before normalization.
C15_AsStated ==
  DualExport =>
    /\ \A i \in DOMAIN csv_data :
         OriginalCell(csv_data[i]) = Num(source.items_data[i].unit_price)
    /\ OriginalCell(SummaryRow("Subtotal")) = Num(source.subtotal)
    /\ OriginalCell(SummaryRow("Shipping")) = Num(source.shipping)

\* a is within k roundings of b, and within the absolute slack given.
Near(a, b, k, slack) ==
  XLe(XAbs(XSub(a, b)),
      XAdd(XMul(XInt(k), XMul(UnitRoundoff, XAbs(b))), slack))

\* Half a unit of the fourth decimal, rounded up to a dyadic number.
HalfTenThousandth == [m |-> 1, e |-> -14]

\* C15 (amended): the recovered values equal the values before normalization
\* up to rounding: the summary's original-currency subtotal and shipping are
\* within the two roundings of multiplying and dividing by the rate, and the
\* original-currency unit price of an item row is within these two roundings
\* and the rounding to four decimals.
C15_RoundTrip ==
  DualExport =>
    /\ \A i \in DOMAIN csv_data :
         /\ OriginalCell(csv_data[i]).kind = "float"
         /\ Near(OriginalCell(csv_data[i]).num, source.items_data[i].unit_price,
                 4, HalfTenThousandth)
    /\ Near(OriginalCell(SummaryRow("Subtotal")).num, source.subtotal, 3, Zero)
    /\ Near(OriginalCell(SummaryRow("Shipping")).num, source.shipping, 3, Zero)

C15_Witness ==
  /\ DualExport
  /\ Rate = Lit(16, 10)
  /\ csv_data # << >>
  /\ OriginalCell(SummaryRow("Subtotal")) # Num(source.subtotal)

\* ------------------------------------------------------------ summary block

RowsNamed(name) == {k \in DOMAIN summary : summary[k]["Name"] = Str(name)}

AudCell(row) == row["Original AUD $"]

\* The row of an amount: its AUD value and, in the dual-currency layout, the
\* value divided by the stored rate in the original-currency column.
CarriesAmount(row, amount) ==
  /\ AudCell(row) = Num(amount)
  /\ Foreign => OriginalCell(row) = Num(FDiv(amount, Rate))

UnroundedOverheadPercentage(a) ==
  IF a.order_total = Zero
  THEN Zero
  ELSE FMul(FDiv(FSub(FAdd(FAdd(FAdd(a.shipping, a.insurance), a.additional_1),
                           a.additional_2),
                      a.credit),
                 a.order_total),
            FInt(100))

\* The overhead of one unit, from an overhead percentage.
UnitOverhead(unit_price, overhead_percentage) ==
  FMul(unit_price, FDiv(overhead_percentage, FInt(100)))

\* The items of the file the rows of processed_items were made from.
ProcessedFile == pdf_files[Len(attempted)]

\* C17: rounding is display-only.  On the single-order path the true unit
\* cost printed and the one written are computed from the unrounded rate and
\* rounded only when written; on the batch path the overhead amount and the
\* adjusted unit price of a row are the values computed from the unrounded
\* overhead percentage, rounded only when written.
C17_DisplayOnly ==
  /\ SinglePath =>
       \A i \in DOMAIN table :
         table[i].true_unit_cost = TrueUnitCost(Items[i], AdditionalCostRate(order_data))
  /\ pc = "done" =>
       \A i \in DOMAIN csv_data :
         csv_data[i]["New AUD $"] =
           Num(RoundDec(TrueUnitCost(Items[i], AdditionalCostRate(order_data)), 4))
  /\ (pc \in {"batch", "batch_done"} /\ processed_items # << >>) =>
       \A i \in DOMAIN processed_items :
         LET unit_price == ProcessedFile.items[i].unit_price
             overhead == UnitOverhead(unit_price,
                           UnroundedOverheadPercentage(ProcessedFile.amounts))
         IN /\ processed_items[i].Overhead_Amount = RoundDec(overhead, 4)
            /\ processed_items[i].Adjusted_Unit_Price =
                 RoundDec(FAdd(unit_price, overhead), 4)

\* The single-order part of C17, which holds.
C17_SinglePath ==
  /\ SinglePath =>
       \A i \in DOMAIN table :
         table[i].true_unit_cost = TrueUnitCost(Items[i], AdditionalCostRate(order_data))
  /\ pc = "done" =>
       \A i \in DOMAIN csv_data :
         csv_data[i]["New AUD $"] =
           Num(RoundDec(TrueUnitCost(Items[i], AdditionalCostRate(order_data)), 4))

\* ------------------------------------------------------ grand-total invariant

\* subtotal + shipping + insurance + charges - credit of a record, exactly.
XGrandTotal(o) ==
  XSub(XAdd(XAdd(XAdd(XAdd(o.subtotal, o.shipping), o.insurance),
                 o.additional_charges_1),
            o.additional_charges_2),
       o.credit)

\* The six amounts of a record added up in absolute value, exactly.
XAmounts(o) ==
  XAdd(XAdd(XAdd(XAdd(XAdd(XAbs(o.subtotal), XAbs(o.shipping)), XAbs(o.insurance)),
                 XAbs(o.additional_charges_1)),
            XAbs(o.additional_charges_2)),
       XAbs(o.credit))

\* A record has been returned by a constructor or by apply_currency_conversion.
Produced == Built \/ pc \in {"rate_prompt", "constructed", "converted"}

\* C18: every record returned by a constructor (parse_actual_pdf_content with
\* the coupon credit, create_sample_bricklink_data, parse_eur_invoice_data,
\* get_known_invoice_data, parse_invoice_text, manual entry) and every record
\* after apply_currency_conversion has grand_total equal to subtotal +
\* shipping + insurance + additional charges 1 and 2 - credit within the
\* rounding of the sum and of the conversion: ten roundings relative to the
\* amounts added up.
C18_GrandTotal ==
  Produced =>
    XLe(XAbs(XSub(order_data.grand_total, XGrandTotal(order_data))),
        XMul(XMul(XInt(10), UnitRoundoff), XAmounts(order_data)))

C18_Witness ==
  /\ pc = "converted"
  /\ order_number = "29055780"
  /\ Rate = Lit(16, 10)
  /\ order_data.grand_total = FMul(Lit(16036, 100), Lit(16, 10))

\* ---------------------------------------------------- reconciliation report

\* The difference of the last run is more than the tolerance of 0.01.
BeyondTolerance == ~XLe(difference, Cent)

\* The lines printed after the table that are not the three totals.
WarningLines ==
  {k \in DOMAIN printed :
     printed[k].label \notin {"Total additional costs distributed",
                              "Original total additional costs", "Difference"}}

\* C19: whenever the difference between the total additional costs and the
\* distributed total exceeds 0.01, the engine reports a reconciliation
\* warning next to its results, and it still completes the allocation and
\* writes the export.
C19_ReconciliationWarning ==
  /\ (Calculated /\ BeyondTolerance) =>
       /\ WarningLines # {}
       /\ error = "none"
  /\ (pc = "done" /\ BeyondTolerance) => csv_written

\* The part of C19 that holds: a difference beyond the tolerance ends nothing;
\* the three totals are printed and the export is written.
C19_NonFatal ==
  /\ (Calculated /\ BeyondTolerance) =>
       /\ error = "none"
       /\ printed = PrintedTotals(total_additional_costs, total_additional_distributed)
  /\ (pc = "done" /\ BeyondTolerance) => csv_written /\ Len(csv_data) = Len(Items)

\* ------------------------------------------------------------- no mutation

\* A step of calculate_costs_from_data or of create_csv_output.
EngineStep == pc \in {"calculate", "create_csv_output"}

\* A step in which apply_currency_conversion converts or returns the record.
ConversionStep ==
  \/ pc = "rate_prompt" /\ pc' = "calculate"
  \/ pc = "constructed" /\ pc' = "converted"

\* C20: calculate_costs_from_data and create_csv_output leave the record and
\* every item of it unchanged; apply_currency_conversion returns an AUD record
\* with every field unchanged, and for another currency it leaves the item
\* dicts the record held before the call as they were (the record gets
\* converted copies).
C20_NoMutation ==
  [][/\ EngineStep => (order_data' = order_data /\ item_dicts' = item_dicts)
     /\ (ConversionStep /\ order_data.original_currency = "AUD") =>
          order_data' = order_data
     /\ ConversionStep =>
          /\ item_dicts' = item_dicts
          /\ item_dicts' = source.items_data
     /\ (Built /\ path = "fixture" /\ order_data.original_currency = "AUD") =>
          order_data = source]_vars

C20_Witness ==
  /\ pc = "done"
  /\ run = 2
  /\ Foreign
  /\ Rate = Lit(16, 10)
  /\ item_dicts # << >>
  /\ item_dicts = source.items_data
  /\ item_dicts # order_data.items_data

\* ------------------------------------------------------ invalid input record

\* The engine has run on a record with a defect.
DefectiveRun == defect # NoDefect /\ pc # "calculate"

\* C21: when the record handed to the engine lacks a required field or has a
\* malformed one, processing ends with an InvalidOrderDataError that names
\* the field, and no allocation result and no export is produced.
C21_InvalidOrderData ==
  DefectiveRun =>
    /\ error = "InvalidOrderDataError"
    /\ error_message = "'" \o defect.field \o "'"
    /\ table = << >>
    /\ ~csv_written

\* What holds of a record with a defect: the run ends with a KeyError that
\* shows the field when the field is missing, with a TypeError or ValueError
\* otherwise; the totals are not printed and no export is written.
C21_EndsWithoutExport ==
  DefectiveRun =>
    /\ pc = "crashed"
    /\ error \in {"KeyError", "TypeError", "ValueError"}
    /\ defect.kind = "missing" =>
         (error = "KeyError" /\ error_message = "'" \o defect.field \o "'")
    /\ printed = << >>
    /\ ~csv_written

\* -------------------------------------------------- positive exchange rate

\* The record has reached calculate_costs_from_data or create_csv_output.
ReachedEngine == pc \in {"calculate", "create_csv_output", "done", "crashed"}

\* C22: whatever is typed at the rate prompts, the exchange_rate of a record
\* that reaches calculate_costs_from_data or create_csv_output is greater
\* than 0, so the divisions by exchange_rate of the dual-currency export
\* never divide by 0.
C22_PositiveExchangeRate ==
  ReachedEngine =>
    /\ FLt(Zero, order_data.exchange_rate)
    /\ error # "ZeroDivisionError" \/ ~AllQtyPositive

C22_Witness ==
  /\ pc = "done"
  /\ path = "manual"
  /\ Foreign
  /\ rate = Lit(16, 10)
  /\ order_data.exchange_rate = rate
  /\ csv_data # << >>

\* ----------------------------------------------------------- per-item formulas

\* The run of the engine on the AUD fixture (order 29154233).
AudFixtureRun ==
  /\ SinglePath
  /\ path = "fixture"
  /\ source = parse_actual_pdf_content(create_mock_aud_pdf_content, order_number)

\* C23: per-item formulas: every item the engine has handled (quantity > 0)
\* has allocated overhead = stored total * overhead rate, overhead per unit =
\* allocated overhead / quantity and true unit cost = unit price + overhead
\* per unit, and a completed run has handled every item; for the AUD fixture
\* (subtotal 115.17, shipping 12.50) the first item (qty 30, unit price 0.071,
\* total 2.13) gets 2.13 * (12.50 / 115.17).
C23_PerItemFormulas ==
  /\ SinglePath =>
       \A i \in DOMAIN table :
         LET allocated_overhead == FMul(Items[i].total, additional_cost_rate)
             per_unit == FDiv(allocated_overhead, FInt(Items[i].qty))
         IN /\ Items[i].qty # 0
            /\ table[i].item_additional_cost = allocated_overhead
            /\ table[i].additional_cost_per_unit = per_unit
            /\ table[i].true_unit_cost = FAdd(Items[i].unit_price, per_unit)
  /\ Calculated => Len(table) = Len(Items)
  /\ AudFixtureRun =>
       /\ pc # "crashed"
       /\ Items[1].qty = 30
       /\ Items[1].unit_price = Lit(71, 1000)
       /\ additional_cost_rate = FDiv(Lit(1250, 100), Lit(11517, 100))
       /\ table[1].item_additional_cost =
            FMul(Lit(213, 100), FDiv(Lit(1250, 100), Lit(11517, 100)))

\* The engine has completed on the AUD fixture, all 19 items handled.
C23_Witness ==
  /\ AudFixtureRun
  /\ pc = "done"
  /\ Len(table) = 19

\* -------------------------------------------------------------- total overhead

\* The record came from parse_invoice_text, which returns neither insurance
\* nor additional charges nor credit.
ChargesAbsent ==
  /\ path = "library"
  /\ \E subtotal \in SubtotalInputs, shipping \in ShippingInputs \cup {Zero},
        items_data \in ExtractedItems \cup {EqualTotals} :
       source = parse_invoice_text(subtotal, shipping, items_data, order_number)

\* C24: total overhead: on every path on which calculate_costs_from_data gets
\* a well-formed record, the total of additional costs is shipping +
\* insurance + additional_charges_1 + additional_charges_2 - credit of that
\* record; the credit of a fixture-parsed order is the fixture's credit plus
\* its coupon credit (converted with the order when it is converted); and the
\* charge fields absent from a record count as 0, the total being the
\* shipping alone.
C24_TotalOverhead ==
  /\ (SinglePath /\ defect = NoDefect) =>
       total_additional_costs =
         FSub(FAdd(FAdd(FAdd(order_data.shipping, order_data.insurance),
                        order_data.additional_charges_1),
                   order_data.additional_charges_2),
              order_data.credit)
  /\ (Produced /\ path = "fixture") =>
       LET pdf_content == read_actual_pdf_content(order_number)
       IN /\ source.credit = FAdd(pdf_content.credit, pdf_content.coupon_credit)
          /\ Built =>
               order_data.credit =
                 IF Foreign THEN FMul(source.credit, Rate) ELSE source.credit
  /\ (SinglePath /\ defect = NoDefect /\ ChargesAbsent) =>
       total_additional_costs = order_data.shipping

\* The engine has completed on the converted USD fixture, whose coupon credit
\* of 1.10 is in the credit it subtracted.
C24_Witness ==
  /\ pc = "done"
  /\ path = "fixture"
  /\ order_number = "29062495"
  /\ source.credit = Lit(110, 100)
  /\ Rate = Lit(16, 10)
  /\ order_data.credit = FMul(Lit(110, 100), Lit(16, 10))
  /\ FLt(total_additional_costs,
         FAdd(order_data.shipping, order_data.additional_charges_1))

\* The engine has completed on a record of parse_invoice_text.
C24_AbsentCharges ==
  /\ pc = "done"
  /\ defect = NoDefect
  /\ ChargesAbsent
  /\ total_additional_costs = Lit(11, 10)

\* ------------------------------------------------------ weight by line total

\* The overhead a row of processed_items assigns to its item: the overhead
\* amount of one unit times the quantity.
AssignedOverhead(row) == FMul(row.Overhead_Amount, FInt(row.Quantity))

\* C25: allocation depends on an item only through its line total: two items
\* of one order with equal line totals get equal allocated overhead whatever
\* their quantities and unit prices, on the single-order path (the allocated
\* overhead of the table) and on the batch path (overhead amount per unit
\* times quantity of the rows of one file).
C25_WeightByLineTotal ==
  /\ SinglePath =>
       \A i, j \in DOMAIN table :
         Items[i].total = Items[j].total =>
           table[i].item_additional_cost = table[j].item_additional_cost
  /\ (pc \in {"batch", "batch_done"} /\ processed_items # << >>) =>
       \A i, j \in DOMAIN processed_items :
         ProcessedFile.items[i].total = ProcessedFile.items[j].total =>
           AssignedOverhead(processed_items[i]) =
             AssignedOverhead(processed_items[j])

\* The single-order part of C25, which holds.
C25_SinglePath ==
  SinglePath =>
    \A i, j \in DOMAIN table :
      Items[i].total = Items[j].total =>
        table[i].item_additional_cost = table[j].item_additional_cost

\* The engine has completed on two items of equal total and different
\* quantity and unit price.
C25_EqualTotals ==
  /\ pc = "done"
  /\ Items = EqualTotals
  /\ table[1].item_additional_cost = table[2].item_additional_cost
  /\ table[1].item_additional_cost # Zero

\* ------------------------------------------------------------ extracted items

\* The positions of the colour lines of a text that start an item: after an
\* 'Items in Order' line and before the first end marker.
Started(text) ==
  {i \in DOMAIN text :
     /\ text[i].kind = "colour"
     /\ \E s \in 1..(i - 1) : text[s].kind = "start"
     /\ \A e \in 1..(i - 1) : text[e].kind # "end"}

\* The item started at line i gets a price: a price line follows before the
\* next colour line and before the end marker.
Priced(text, i) ==
  \E p \in (i + 1)..Len(text) :
    /\ text[p].kind = "price"
    /\ \A m \in (i + 1)..p : text[m].kind \notin {"colour", "end"}

EmittedLines == {extracted[k].line : k \in DOMAIN extracted}

\* C26: extract_items_from_text_advanced emits each item that was started
\* and priced exactly once, in text order: the colour lines of the returned
\* items are those of the priced items of the text, strictly increasing
\* along the list, so that no item, the last one before an end marker
\* included, is in the list twice.
C26_EmittedOnce ==
  pc = "extracted" =>
    /\ EmittedLines = {i \in Started(full_text) : Priced(full_text, i)}
    /\ \A j, k \in DOMAIN extracted :
         j < k => extracted[j].line < extracted[k].line

\* C26 holds on the texts without an end marker.
C26_NoEndMarker ==
  (pc = "extracted" /\ \A i \in DOMAIN full_text : full_text[i].kind # "end") =>
    /\ EmittedLines = {i \in Started(full_text) : Priced(full_text, i)}
    /\ \A j, k \in DOMAIN extracted :
         j < k => extracted[j].line < extracted[k].line

\* Two items were extracted from a text without an end marker.
C26_TwoItems ==
  /\ pc = "extracted"
  /\ Len(extracted) = 2
  /\ \A i \in DOMAIN full_text : full_text[i].kind # "end"

\* C27: every extracted item has its colour, quantity, unit price and total
\* set (those of its colour line and of the first price line after it) and
\* was started by a colour line after the 'Items in Order' marker and before
\* the first end marker; an item that was started and never priced is not
\* returned.
C27_ItemInvariants ==
  pc = "extracted" =>
    /\ \A k \in DOMAIN extracted :
         LET item == extracted[k]
         IN /\ item.line \in Started(full_text)
            /\ item.color = full_text[item.line].str
            /\ item.priced
            /\ \E p \in (item.line + 1)..Len(full_text) :
                 /\ full_text[p].kind = "price"
                 /\ \A m \in (item.line + 1)..(p - 1) :
                      full_text[m].kind \notin {"colour", "end", "price"}
                 /\ item.qty = full_text[p].qty
                 /\ item.unit_price = full_text[p].unit_price
                 /\ item.total = full_text[p].total
    /\ \A i \in Started(full_text) :
         ~Priced(full_text, i) => i \notin EmittedLines

\* One item was started and never priced, another was priced and returned.
C27_Witness ==
  /\ pc = "extracted"
  /\ \E i \in Started(full_text) : ~Priced(full_text, i)
  /\ extracted # << >>
  /\ extracted[1].qty = 30

\* ------------------------------------------------------ batch output accounting

\* The number of rows the files before file k of the list contribute.
RECURSIVE Offset(_, _)
Offset(files, k) ==
  IF k <= 1
  THEN 0
  ELSE Offset(files, k - 1) +
       (IF files[k - 1].readable THEN Len(files[k - 1].items) ELSE 0)

\* C28: batch output accounting: when convert_all_pdfs_to_csv has ended, the
\* master CSV was created exactly when some file of the batch is readable and
\* has an item; its rows are, file after file in list order, one row for each
\* item of each readable file, a file whose processing failed adding none;
\* and when the PDF library is unavailable or there is no PDF file no file is
\* processed and nothing is written.  Before the end nothing is written.
C28_BatchAccounting ==
  /\ pc = "batch" => ~master_written /\ master_csv = << >>
  /\ pc = "batch_done" =>
       /\ master_written <=>
            \E k \in DOMAIN pdf_files :
              pdf_files[k].readable /\ pdf_files[k].items # << >>
       /\ Len(master_csv) = Offset(pdf_files, Len(pdf_files) + 1)
       /\ \A k \in DOMAIN pdf_files :
            pdf_files[k].readable =>
              \A i \in DOMAIN pdf_files[k].items :
                LET row == master_csv[Offset(pdf_files, k) + i]
                    item == pdf_files[k].items[i]
                IN /\ row.Quantity = item.qty
                   /\ row.Original_Unit_Price = RoundDec(item.unit_price, 4)
                   /\ row.Original_Total = RoundDec(item.total, 2)
                   /\ row.Overhead_Percentage =
                        calculate_overhead_percentage_advanced(pdf_files[k].amounts)
       /\ pdf_files = << >> =>
            attempted = << >> /\ all_items = << >> /\ ~master_written

\* The batch has ended with the master CSV written from a readable file of
\* two items followed by a file that failed.
C28_Witness ==
  /\ pc = "batch_done"
  /\ Len(pdf_files) = 2
  /\ pdf_files[1].readable
  /\ pdf_files[2] = UnreadablePdf
  /\ master_written
  /\ Len(master_csv) = 2

\* The batch has ended without a master CSV: no file had an item.
C28_NothingExtracted ==
  /\ pc = "batch_done"
  /\ Len(pdf_files) = 2
  /\ Len(attempted) = 2
  /\ ~master_written

\* --------------------------------------------------- table and export agree

\* C29: for every order the engine completes and every item, the true unit
\* cost of the console table equals the true unit cost create_csv_output
\* computes for the item's row before rounding, from the same rate, total,
\* quantity and unit price; the cell written is that value rounded to four
\* decimals.
C29_TableAndExportAgree ==
  pc = "done" =>
    /\ Len(csv_data) = Len(table)
    /\ \A i \in DOMAIN table :
         /\ table[i].true_unit_cost =
              CsvTrueUnitCost(Items[i], additional_cost_rate)
         /\ csv_data[i]["New AUD $"] = Num(RoundDec(table[i].true_unit_cost, 4))

\* A converted order of two items was exported, the second with a share of
\* the additional costs.
C29_Witness ==
  /\ pc = "done"
  /\ Foreign
  /\ Len(table) = 2
  /\ Len(csv_data) = 2
  /\ table[2].additional_cost_per_unit # Zero

\* ------------------------------------------------ no export on failed allocation

\* C30: no export on failed allocation: an order with an item of quantity 0,
\* at any position, gets no CSV file: calculate_costs_from_data fails before
\* it calls create_csv_output, and create_csv_output called on the record
\* fails before it opens the file; a run that has failed has written
\* nothing.
C30_NoExportOnFailure ==
  /\ (Built /\ \E i \in DOMAIN Items : Items[i].qty = 0) =>
       /\ pc # "done"
       /\ ~csv_written
       /\ csv_data = << >> /\ fieldnames = << >> /\ summary = << >>
  /\ pc = "crashed" =>
       /\ ~csv_written
       /\ csv_data = << >> /\ fieldnames = << >> /\ summary = << >>

\* create_csv_output, called on a record whose second item has quantity 0,
\* has failed.
C30_Witness ==
  /\ pc = "crashed"
  /\ run = 0
  /\ defect = NoDefect
  /\ error = "ZeroDivisionError"
  /\ Len(Items) = 2
  /\ Items[1].qty # 0
  /\ Items[2].qty = 0
  /\ ~csv_written

\* calculate_costs_from_data has failed at a first item of quantity 0.
C30_EngineFailed ==
  /\ pc = "crashed"
  /\ run = 1
  /\ Items[1].qty = 0
  /\ table = << >>
  /\ ~csv_written

\* -------------------------------------------------------------- next state

BatchAmounts ==
  {Amounts(order_total, Lit(11, 10), Zero, Zero, Lit(7, 10), credit) :
     order_total \in SubtotalInputs, credit \in CreditInputs}

\* The PDF files the working directory may hold.
BatchFiles ==
  {UnreadablePdf} \cup
  {PdfFile(TRUE, a, items) : a \in BatchAmounts, items \in ExtractedItems} \cup
  {PdfFile(TRUE, Amounts(FInt(3), Lit(11, 10), Zero, Zero, Lit(7, 10), Zero),
           EqualTotals)}

FileLists == UNION {[1..n -> BatchFiles] : n \in 0..MaxFiles}

Next ==
  \/ \E f \in PdfFiles : SelectPdf(f)
  \/ ParseBricklinkPdfText
  \/ \E input \in RateInputs : RatePrompt(input)
  \/ RatePromptInterrupted
  \/ \E currency \in CurrencyInputs : ManualCurrency(currency)
  \/ \E input \in RateInputs : ManualRate(input)
  \/ \E subtotal \in SubtotalInputs, shipping \in ShippingInputs,
        insurance \in InsuranceInputs, charges1 \in Charge1Inputs,
        charges2 \in Charge2Inputs, credit \in CreditInputs :
       ManualTotals(subtotal, shipping, insurance, charges1, charges2, credit)
  \/ \E name \in NameInputs, qty \in QtyInputs, unit_price \in PriceInputs :
       ManualItem(name, qty, unit_price)
  \/ ManualFinish
  \/ CalculateCostsFromData
  \/ CreateCsvOutput
  \/ CalculateAgain
  \/ \E pdfplumber_available \in BOOLEAN, files \in FileLists :
       ConvertAllPdfsToCsv(pdfplumber_available, files)
  \/ ProcessSinglePdfAdvanced
  \/ CreateMasterCsvOutput

Spec == Init /\ [][Next]_vars

\* The program and the calls of a program that imports the module.
LibraryOrders == {"29055780", "29154233"}

\* The fields calculate_costs_from_data reads without a default.
RecordFields == {"subtotal", "shipping", "grand_total"}

ItemFields == {"qty", "unit_price", "total", "name"}

DefectKinds == {"missing", "text"}

LibraryNext ==
  \/ Next
  \/ \E order \in LibraryOrders, currency \in CurrencyInputs :
       CallConstructor(create_sample_bricklink_data(order, currency))
  \/ \E order \in LibraryOrders : CallConstructor(parse_eur_invoice_data(order))
  \/ \E order \in LibraryOrders : CallConstructor(get_known_invoice_data(order))
  \/ \E subtotal \in SubtotalInputs, shipping \in ShippingInputs \cup {Zero},
        items_data \in ExtractedItems \cup {EqualTotals},
        order \in LibraryOrders :
       CallConstructor(parse_invoice_text(subtotal, shipping, items_data, order))
  \/ \E input \in RateInputs : ApplyCurrencyConversion(input)
  \/ HandOverRecord
  \/ CallCreateCsvOutput
  \/ \E order \in LibraryOrders, field \in RecordFields, kind \in DefectKinds :
       HandOverDefectiveRecord(create_sample_bricklink_data(order, "AUD"),
                               field, kind, 0)
  \/ \E order \in LibraryOrders, field \in ItemFields, kind \in DefectKinds,
        item \in 1..3 :
       HandOverDefectiveRecord(create_sample_bricklink_data(order, "AUD"),
                               field, kind, item)
  \/ CalculateCostsFromDefectiveData

LibrarySpec == Init /\ [][LibraryNext]_vars
====
